---- MODULE Spec2Model ----
(***************************************************************************)
(* Model of the quaid ingest-to-search data plane:                         *)
(*   - Pipeline::run with its feeder, media and embed worker threads and   *)
(*     the three bounded crossbeam channels (pipeline/mod.rs, stages.rs);  *)
(*   - the columnar writers ParquetStore::write_conversation and           *)
(*     EmbeddingsStore::write_embeddings (storage/parquet.rs,              *)
(*     storage/embeddings.rs);                                             *)
(*   - EmbeddingsCompactor::compact_provider (storage/compactor.rs);       *)
(*   - DuckDbQuery::search_semantic (storage/duckdb.rs).                   *)
(***************************************************************************)
EXTENDS Integers, Sequences, FiniteSets, TLC

VARIABLES
    conversations,  \* Pipeline::run argument: the input batch
    config,         \* PipelineConfig: media_workers, embed_workers, channel_capacity
    opc,            \* position of the orchestrator thread inside Pipeline::run
    result,         \* PipelineResult being aggregated
    feeder,         \* feeder thread: [pc, next]
    fetch_ch,       \* channel C1 (fetch_tx / fetch_rx)
    media_ch,       \* channel C2 (media_tx / media_rx)
    embed_ch,       \* channel C3 (embed_tx / embed_rx)
    media,          \* media worker threads: [pc, msg]
    embed,          \* embed worker threads: [pc, msg, out]
    convFiles,      \* conversations/<provider>/<id>.parquet
    sent,           \* history: events put on C3 ("Complete", or an Error's stage), per input position
    hist,           \* history: how far stage 3 got with each input position
    embDir,         \* embeddings/<provider>/ exists
    embFiles,       \* embeddings/<provider>/<id>.parquet
    consolidated,   \* embeddings/<provider>.parquet
    op,             \* client: the call in progress and its locals
    last,           \* client: outcome of the last finished call
    index,          \* operational index (SQLite conversations table): id -> updated_at
    pull,           \* pull driver (commands/pull.rs): its arguments and locals
    written,        \* history: what the last successful write_conversation put at each path
    mock_store,     \* MockStore.store: the HashMap behind the mutex
    mutex,          \* MockStore.store: the thread holding the Mutex, 0 when free
    callers,        \* threads calling the credential store: [pc, call, ...]
    history         \* history: the finished credential calls with their call and return times

pipeVars == <<conversations, config, opc, result, feeder, fetch_ch, media_ch,
              embed_ch, media, embed, sent, hist>>
storeVars == <<embDir, embFiles, consolidated, op, last>>
pullVars == <<index, pull>>
credVars == <<mock_store, mutex, callers, history>>
vars == <<pipeVars, convFiles, storeVars, pullVars, written, credVars>>

----------------------------------------------------------------------------
(* Bounds and input sets *)

MaxConvs == 2
MaxWorkers == 2
MaxCapacity == 2

ConvIds == {"c1", "c2"}
Provider == "p"

\* A message is represented by the number of chunks the chunker cuts it into
\* (0 for a message whose text trims to nothing).
MessageLists == {<<>>, <<0, 3>>}

Conversation == [id : ConvIds, provider_id : {Provider}, messages : MessageLists]

MediaIds == 1..MaxWorkers
EmbedIds == 1..MaxWorkers

None == [type |-> "None"]

----------------------------------------------------------------------------
(* Helpers *)

RECURSIVE SeqSum(_)
SeqSum(s) == IF s = <<>> THEN 0 ELSE Head(s) + SeqSum(Tail(s))

RECURSIVE SetSum(_, _)
SetSum(S, f) ==
    IF S = {} THEN 0
    ELSE LET x == CHOOSE y \in S : TRUE IN f[x] + SetSum(S \ {x}, f)

\* MessageChunker::chunk_messages: flat_map of chunk_message over the messages
chunk_messages(messages) == SeqSum(messages)

----------------------------------------------------------------------------
(* Files.  A path holds no file, a file that was created but whose writer  *)
(* has not been closed (no footer: "partial"), or a closed file.           *)

NoFile == [state |-> "absent"]
PartialFile(content) == [state |-> "partial", content |-> content]
CompleteFile(content) == [state |-> "complete", content |-> content]

\* std::fs::File::create: creates the file or truncates an existing one
FileCreate(old) == PartialFile(<<>>)

\* ArrowWriter::write followed by ArrowWriter::close on the created file
WriterClose(content) == CompleteFile(content)

\* ParquetStorageConfig::conversation_path: one file per (provider, id)
conversation_path(conv) == <<conv.provider_id, conv.id>>
ConvPaths == {Provider} \X ConvIds

----------------------------------------------------------------------------
(* Pipeline messages (pipeline/messages.rs).  idx is the position of the   *)
(* conversation in the input batch; the code does not carry it, the model  *)
(* does so that two inputs with the same id stay distinguishable.          *)

ConversationFetched(i, conv) ==
    [type |-> "ConversationFetched", idx |-> i, conversation |-> conv]
MediaDownloaded(i, conv) ==
    [type |-> "MediaDownloaded", idx |-> i, conversation |-> conv]
Complete(i, id, mc, cc) ==
    [type |-> "Complete", idx |-> i, conversation_id |-> id,
     messages_count |-> mc, chunks_count |-> cc]
Error(i, id, stage, message) ==
    [type |-> "Error", idx |-> i, conversation_id |-> id, stage |-> stage,
     message |-> message]
Shutdown == [type |-> "Shutdown"]

----------------------------------------------------------------------------
(* Channel ends.  A crossbeam channel is disconnected for its receivers    *)
(* once every Sender is dropped and for its senders once every Receiver is *)
(* dropped.  The orchestrator keeps its own ends until the drop() calls.   *)

MediaAlive(w) == media[w].pc \notin {"unspawned", "done"}
EmbedAlive(w) == embed[w].pc \notin {"unspawned", "done"}

FetchSenders == feeder.pc # "done"

\* Mutant of MediaSenders: the orchestrator never drops its media_tx
MediaSendersKept == TRUE

\* Mutant of FetchReceivers: the orchestrator never drops its fetch_rx
FetchReceiversKept == TRUE

FetchReceivers ==
    \/ opc \in {"start", "spawn_media"}
    \/ \E w \in MediaIds : MediaAlive(w)
MediaSenders ==
    \/ opc \in {"start", "spawn_media"}
    \/ \E w \in MediaIds : MediaAlive(w)
MediaReceivers ==
    \/ opc \in {"start", "spawn_media", "spawn_embed"}
    \/ \E w \in EmbedIds : EmbedAlive(w)
EmbedSenders ==
    \/ opc \in {"start", "spawn_media", "spawn_embed"}
    \/ \E w \in EmbedIds : EmbedAlive(w)
EmbedReceivers == opc \in {"start", "spawn_media", "spawn_embed", "collect"}

Full(ch) == Len(ch) >= config.channel_capacity

----------------------------------------------------------------------------
(* Pipeline::run, orchestrator thread (pipeline/mod.rs:68-169)             *)

PipelineResultDefault ==
    [conversations_synced |-> 0, messages_processed |-> 0,
     attachments_downloaded |-> 0, embeddings_generated |-> 0, errors |-> <<>>]

\* mod.rs:72-111: the empty batch returns at once; otherwise the channels and
\* the shared handles are built (EmbeddingModel::load_or_download always
\* returns Ok, model.rs:60-75) and the feeder thread is spawned.
RunStart ==
    /\ opc = "start"
    /\ IF conversations = <<>>
       THEN /\ opc' = "returned"
            /\ UNCHANGED feeder
       ELSE /\ opc' = "spawn_media"
            /\ feeder' = [feeder EXCEPT !.pc = "run"]
    /\ UNCHANGED <<conversations, config, result, fetch_ch, media_ch, embed_ch,
                   media, embed, sent, hist, convFiles, storeVars, pullVars, written, credVars>>

\* mod.rs:113-125: spawn media_workers threads, then drop(fetch_rx), drop(media_tx)
SpawnMedia ==
    /\ opc = "spawn_media"
    /\ opc' = "spawn_embed"
    /\ media' = [w \in MediaIds |->
                   IF w <= config.media_workers
                   THEN [media[w] EXCEPT !.pc = "recv"] ELSE media[w]]
    /\ UNCHANGED <<conversations, config, result, feeder, fetch_ch, media_ch,
                   embed_ch, embed, sent, hist, convFiles, storeVars, pullVars, written, credVars>>

\* mod.rs:127-142: spawn embed_workers threads, then drop(media_rx), drop(embed_tx)
SpawnEmbed ==
    /\ opc = "spawn_embed"
    /\ opc' = "collect"
    /\ embed' = [w \in EmbedIds |->
                   IF w <= config.embed_workers
                   THEN [embed[w] EXCEPT !.pc = "recv"] ELSE embed[w]]
    /\ UNCHANGED <<conversations, config, result, feeder, fetch_ch, media_ch,
                   embed_ch, media, sent, hist, convFiles, storeVars, pullVars, written, credVars>>

\* Mutant of Aggregate: an Error event is dropped instead of being recorded
AggregateDropsError(res, msg) ==
    IF msg.type = "Complete"
    THEN [res EXCEPT !.conversations_synced = @ + 1,
                     !.messages_processed = @ + msg.messages_count,
                     !.embeddings_generated = @ + msg.chunks_count]
    ELSE res

\* mod.rs:146-160: the match on one message taken from embed_rx
Aggregate(res, msg) ==
    IF msg.type = "Complete"
    THEN [res EXCEPT !.conversations_synced = @ + 1,
                     !.messages_processed = @ + msg.messages_count,
                     !.embeddings_generated = @ + msg.chunks_count]
    ELSE IF msg.type = "Error"
    THEN [res EXCEPT !.errors = Append(@, msg.message)]
    ELSE res

\* mod.rs:145: one iteration of `for msg in embed_rx`
Collect ==
    /\ opc = "collect"
    /\ embed_ch # <<>>
    /\ result' = Aggregate(result, Head(embed_ch))
    /\ embed_ch' = Tail(embed_ch)
    /\ UNCHANGED <<conversations, config, opc, feeder, fetch_ch, media_ch,
                   media, embed, sent, hist, convFiles, storeVars, pullVars, written, credVars>>

\* mod.rs:145,161: embed_rx is empty and disconnected, the loop ends
CollectEnd ==
    /\ opc = "collect"
    /\ embed_ch = <<>>
    /\ ~EmbedSenders
    /\ opc' = "join"
    /\ UNCHANGED <<conversations, config, result, feeder, fetch_ch, media_ch,
                   embed_ch, media, embed, sent, hist, convFiles, storeVars, pullVars, written, credVars>>

\* mod.rs:163-168: join every handle (each worker returns Ok(())), return Ok(result)
JoinAll ==
    /\ opc = "join"
    /\ feeder.pc = "done"
    /\ \A w \in MediaIds : ~MediaAlive(w)
    /\ \A w \in EmbedIds : ~EmbedAlive(w)
    /\ opc' = "returned"
    /\ UNCHANGED <<conversations, config, result, feeder, fetch_ch, media_ch,
                   embed_ch, media, embed, sent, hist, convFiles, storeVars, pullVars, written, credVars>>

----------------------------------------------------------------------------
(* Feeder thread (pipeline/mod.rs:98-111)                                  *)

\* mod.rs:99-108: send the next conversation; a failed send breaks the loop
FeederSend ==
    /\ feeder.pc = "run"
    /\ feeder.next <= Len(conversations)
    /\ IF ~FetchReceivers
       THEN /\ feeder' = [feeder EXCEPT !.pc = "done"]
            /\ UNCHANGED fetch_ch
       ELSE /\ ~Full(fetch_ch)
            /\ fetch_ch' = Append(fetch_ch,
                   ConversationFetched(feeder.next, conversations[feeder.next]))
            /\ feeder' = [feeder EXCEPT !.next = @ + 1]
    /\ UNCHANGED <<conversations, config, opc, result, media_ch, embed_ch,
                   media, embed, sent, hist, convFiles, storeVars, pullVars, written, credVars>>

\* mod.rs:109-110: input exhausted, fetch_tx dropped
FeederExit ==
    /\ feeder.pc = "run"
    /\ feeder.next > Len(conversations)
    /\ feeder' = [feeder EXCEPT !.pc = "done"]
    /\ UNCHANGED <<conversations, config, opc, result, fetch_ch, media_ch,
                   embed_ch, media, embed, sent, hist, convFiles, storeVars, pullVars, written, credVars>>

----------------------------------------------------------------------------
(* Stage 2: media_worker (pipeline/stages.rs:15-54)                        *)

\* stages.rs:21-50: what the worker sends for a received message
\* (None: the message is ignored)
\* Mutant of MediaOutput: an Error falls into the `_ => {}` arm
MediaOutputDropsErrors(msg) ==
    CASE msg.type = "ConversationFetched" ->
             MediaDownloaded(msg.idx, msg.conversation)
      [] msg.type = "Shutdown" -> Shutdown
      [] OTHER -> None

MediaOutput(msg) ==
    CASE msg.type = "ConversationFetched" ->
             MediaDownloaded(msg.idx, msg.conversation)
      [] msg.type = "Shutdown" -> Shutdown
      [] msg.type = "Error" -> msg
      [] OTHER -> None

\* stages.rs:20: one iteration of `for msg in rx`
MediaRecv(w) ==
    /\ media[w].pc = "recv"
    /\ fetch_ch # <<>>
    /\ fetch_ch' = Tail(fetch_ch)
    /\ LET out == MediaOutput(Head(fetch_ch)) IN
       media' = [media EXCEPT ![w] =
                   IF out = None THEN [pc |-> "recv", msg |-> None]
                   ELSE [pc |-> "send", msg |-> out]]
    /\ UNCHANGED <<conversations, config, opc, result, feeder, media_ch,
                   embed_ch, embed, sent, hist, convFiles, storeVars, pullVars, written, credVars>>

\* stages.rs:20,53: rx is empty and disconnected, the worker returns Ok(())
MediaExit(w) ==
    /\ media[w].pc = "recv"
    /\ fetch_ch = <<>>
    /\ ~FetchSenders
    /\ media' = [media EXCEPT ![w] = [pc |-> "done", msg |-> None]]
    /\ UNCHANGED <<conversations, config, opc, result, feeder, fetch_ch,
                   media_ch, embed_ch, embed, sent, hist, convFiles, storeVars, pullVars, written, credVars>>

\* stages.rs:37-48: tx.send; a MediaDownloaded whose send fails breaks the
\* loop, a Shutdown breaks it in any case, a forwarded Error never does
MediaSend(w) ==
    /\ media[w].pc = "send"
    /\ LET m == media[w].msg
           failed == ~MediaReceivers
           stop == m.type = "Shutdown" \/ (failed /\ m.type = "MediaDownloaded")
       IN /\ failed \/ ~Full(media_ch)
          /\ media_ch' = IF failed THEN media_ch ELSE Append(media_ch, m)
          /\ media' = [media EXCEPT ![w] =
                         [pc |-> IF stop THEN "done" ELSE "recv", msg |-> None]]
    /\ UNCHANGED <<conversations, config, opc, result, feeder, fetch_ch,
                   embed_ch, embed, sent, hist, convFiles, storeVars, pullVars, written, credVars>>

----------------------------------------------------------------------------
(* Stage 3: embed_worker (pipeline/stages.rs:60-128)                       *)

\* Mutant of EmbedFailure: the `continue` is missing, the worker goes on to
\* write_conversation after the failed embed_batch
EmbedFailureFallsThrough(msg) == [pc |-> "create", msg |-> msg, out |-> None]

\* stages.rs:84-93: embed_batch returned Err
EmbedFailure(msg) ==
    [pc |-> "send", msg |-> None,
     out |-> Error(msg.idx, msg.conversation.id, "embed", "Embedding failed")]

\* stages.rs:97-103: write_conversation returned Err
PersistFailure(msg) ==
    [pc |-> "send", msg |-> None,
     out |-> Error(msg.idx, msg.conversation.id, "persist",
                   "Failed to write parquet")]

\* stages.rs:75-80,106-113: after the conversation file is written the worker
\* goes straight to the completion event (the embeddings write is a TODO)
Completion(msg) ==
    [pc |-> "send", msg |-> None,
     out |-> Complete(msg.idx, msg.conversation.id,
                      Len(msg.conversation.messages),
                      chunk_messages(msg.conversation.messages))]

\* stages.rs:67-94,115-124: one iteration of `for msg in rx` up to the result
\* of embed_batch (Embedder is a trait object whose embed_batch returns a Result)
EmbedRecv(w) ==
    /\ embed[w].pc = "recv"
    /\ media_ch # <<>>
    /\ media_ch' = Tail(media_ch)
    /\ LET m == Head(media_ch) IN
       \E embedded \in BOOLEAN :
         /\ embed' = [embed EXCEPT ![w] =
               CASE m.type = "MediaDownloaded" ->
                        IF embedded
                        THEN [pc |-> "create", msg |-> m, out |-> None]
                        ELSE EmbedFailure(m)
                 [] m.type \in {"Shutdown", "Error"} ->
                        [pc |-> "send", msg |-> None, out |-> m]
                 [] OTHER -> [pc |-> "recv", msg |-> None, out |-> None]]
         /\ hist' = IF m.type = "MediaDownloaded" /\ ~embedded
                    THEN [hist EXCEPT ![m.idx] = "embed_failed"]
                    ELSE hist
    /\ UNCHANGED <<conversations, config, opc, result, feeder, fetch_ch,
                   embed_ch, media, sent, convFiles, storeVars, pullVars, written, credVars>>

\* stages.rs:67,127: rx is empty and disconnected, the worker returns Ok(())
EmbedExit(w) ==
    /\ embed[w].pc = "recv"
    /\ media_ch = <<>>
    /\ ~MediaSenders
    /\ embed' = [embed EXCEPT ![w] = [pc |-> "done", msg |-> None, out |-> None]]
    /\ UNCHANGED <<conversations, config, opc, result, feeder, fetch_ch,
                   media_ch, embed_ch, media, sent, hist, convFiles, storeVars, pullVars, written, credVars>>

\* stages.rs:97 -> parquet.rs:74-81: write_conversation is entered; it creates
\* the parent directory and File::create()s the final path (or fails)
EmbedCreate(w) ==
    /\ embed[w].pc = "create"
    /\ LET m == embed[w].msg
           path == conversation_path(m.conversation)
       IN /\ hist' = [hist EXCEPT ![m.idx] = "called"]
          /\ \E ok \in BOOLEAN :
               IF ok
               THEN /\ convFiles' = [convFiles EXCEPT ![path] = FileCreate(@)]
                    /\ embed' = [embed EXCEPT ![w].pc = "write"]
               ELSE /\ embed' = [embed EXCEPT ![w] = PersistFailure(m)]
                    /\ UNCHANGED convFiles
    /\ UNCHANGED <<conversations, config, opc, result, feeder, fetch_ch,
                   media_ch, embed_ch, media, sent, storeVars, pullVars, written, credVars>>

\* parquet.rs:82-206: build the batch, writer.write, writer.close (or fail and
\* leave what File::create made); then stages.rs:97-113
EmbedWrite(w) ==
    /\ embed[w].pc = "write"
    /\ LET m == embed[w].msg
           path == conversation_path(m.conversation)
       IN \E ok \in BOOLEAN :
            IF ok
            THEN /\ convFiles' = [convFiles EXCEPT
                                    ![path] = WriterClose(m.conversation)]
                 /\ hist' = [hist EXCEPT ![m.idx] = "closed"]
                 /\ embed' = [embed EXCEPT ![w] = Completion(m)]
            ELSE /\ embed' = [embed EXCEPT ![w] = PersistFailure(m)]
                 /\ UNCHANGED <<convFiles, hist>>
    /\ UNCHANGED <<conversations, config, opc, result, feeder, fetch_ch,
                   media_ch, embed_ch, media, sent, storeVars, pullVars, written, credVars>>

\* What `sent` keeps of an event: "Complete", or the stage of an Error
EventTag(m) == IF m.type = "Error" THEN m.stage ELSE m.type

\* stages.rs:87,98,109,116,121: `let _ = tx.send(..)`; Shutdown ends the loop
EmbedSend(w) ==
    /\ embed[w].pc = "send"
    /\ LET m == embed[w].out
           failed == ~EmbedReceivers
       IN /\ failed \/ ~Full(embed_ch)
          /\ embed_ch' = IF failed THEN embed_ch ELSE Append(embed_ch, m)
          /\ sent' = IF ~failed /\ m.type \in {"Complete", "Error"}
                     THEN [sent EXCEPT ![m.idx] = Append(@, EventTag(m))]
                     ELSE sent
          /\ embed' = [embed EXCEPT ![w] =
                [pc |-> IF m.type = "Shutdown" THEN "done" ELSE "recv",
                 msg |-> None, out |-> None]]
    /\ UNCHANGED <<conversations, config, opc, result, feeder, fetch_ch,
                   media_ch, media, hist, convFiles, storeVars, pullVars, written, credVars>>

----------------------------------------------------------------------------
(* Embedding storage under <data_dir>/embeddings/ for one provider, driven *)
(* by one client that makes one call at a time; the process may die in the *)
(* middle of a call.                                                       *)

MaxChunks == 2
MaxLimit == 2
EMBEDDING_DIM == 384

\* An embedding vector is represented by its dimension and one coordinate
Vector(val) == [dim |-> EMBEDDING_DIM, val |-> val]
ShortVector == [dim |-> 1, val |-> 0]

\* The embeddings arguments write_embeddings is called with
EmbeddingInputs ==
    {<<>>, <<Vector(0)>>, <<Vector(2)>>, <<Vector(2), Vector(0)>>, <<ShortVector>>}
Queries == {0, 1}

Idle == [pc |-> "idle"]

\* embeddings.rs:106-150 create_record_batch: one row per chunk
EmbeddingRows(conversation_id, embeddings) ==
    [k \in 1..Len(embeddings) |->
        [conversation_id |-> conversation_id, chunk_index |-> k - 1,
         embedding |-> embeddings[k].val]]

\* The *.parquet entries of embeddings/<provider>/ (whatever their content)
DirFiles == {c \in ConvIds : embFiles[c].state # "absent"}

Perms(S) ==
    {s \in [1..Cardinality(S) -> S] : \A i, j \in DOMAIN s : i # j => s[i] # s[j]}

\* A call returns: the client is idle again and `last` holds the outcome
Return(outcome) ==
    /\ op' = Idle
    /\ last' = outcome

\* The process dies in the middle of a call; the files stay as they are
Crash ==
    /\ op.pc # "idle"
    /\ Return([call |-> op.call, result |-> "crashed", at |-> op.pc])
    /\ UNCHANGED <<embDir, embFiles, consolidated, convFiles, pipeVars, pullVars, written, credVars>>

----------------------------------------------------------------------------
(* EmbeddingsStore::write_embeddings (storage/embeddings.rs:30-86)         *)

\* embeddings.rs:37-59: the checks made before anything is touched
WriteEmbeddingsCall(conversation_id, chunks, embeddings) ==
    /\ op.pc = "idle"
    /\ IF chunks = 0
       THEN Return([call |-> "write_embeddings", result |-> "Ok"])
       ELSE IF chunks # Len(embeddings)
               \/ \E k \in DOMAIN embeddings : embeddings[k].dim # EMBEDDING_DIM
       THEN Return([call |-> "write_embeddings", result |-> "Err"])
       ELSE /\ op' = [pc |-> "mkdir", call |-> "write_embeddings",
                      id |-> conversation_id,
                      rows |-> EmbeddingRows(conversation_id, embeddings)]
            /\ UNCHANGED last
    /\ UNCHANGED <<embDir, embFiles, consolidated, convFiles, pipeVars, pullVars, written, credVars>>

\* embeddings.rs:61-67: fs::create_dir_all(parent)
WriteEmbeddingsMkdir ==
    /\ op.pc = "mkdir"
    /\ \E ok \in BOOLEAN :
         IF ok
         THEN /\ embDir' = TRUE
              /\ op' = [op EXCEPT !.pc = "create"]
              /\ UNCHANGED last
         ELSE /\ Return([call |-> "write_embeddings", result |-> "Err"])
              /\ UNCHANGED embDir
    /\ UNCHANGED <<embFiles, consolidated, convFiles, pipeVars, pullVars, written, credVars>>

\* embeddings.rs:69: File::create(&path)
WriteEmbeddingsCreate ==
    /\ op.pc = "create"
    /\ \E ok \in BOOLEAN :
         IF ok
         THEN /\ embFiles' = [embFiles EXCEPT ![op.id] = FileCreate(@)]
              /\ op' = [op EXCEPT !.pc = "write"]
              /\ UNCHANGED last
         ELSE /\ Return([call |-> "write_embeddings", result |-> "Err"])
              /\ UNCHANGED embFiles
    /\ UNCHANGED <<embDir, consolidated, convFiles, pipeVars, pullVars, written, credVars>>

\* embeddings.rs:70-85: ArrowWriter::try_new, write, close
WriteEmbeddingsClose ==
    /\ op.pc = "write"
    /\ \E ok \in BOOLEAN :
         IF ok
         THEN /\ embFiles' = [embFiles EXCEPT ![op.id] = WriterClose(op.rows)]
              /\ Return([call |-> "write_embeddings", result |-> "Ok"])
         ELSE /\ Return([call |-> "write_embeddings", result |-> "Err"])
              /\ UNCHANGED embFiles
    /\ UNCHANGED <<embDir, consolidated, convFiles, pipeVars, pullVars, written, credVars>>

----------------------------------------------------------------------------
(* EmbeddingsCompactor (storage/compactor.rs)                              *)

\* traits.rs:127-154 list_embedding_providers: the results the directory
\* listing can produce, by the order in which read_dir yields the entries
\* (a directory is pushed as it comes, a consolidated file only when new)
list_embedding_providers ==
    LET dir == embDir
        file == consolidated.state # "absent"
    IN CASE dir /\ file -> {<<Provider>>, <<Provider, Provider>>}
         [] dir \/ file -> {<<Provider>>}
         [] OTHER -> {<<>>}

\* Whether the last finished call was a compaction that ran to its end
AfterCompaction ==
    IF last.call \in {"compact_provider", "compact_all"}
          /\ last.result \in {"Some", "None", "Ok"}
    THEN "done" ELSE "none"

CompactLocals(call, todo) ==
    [pc |-> "check", call |-> call, todo |-> todo, results |-> <<>>,
     prev |-> AfterCompaction, files |-> <<>>, i |-> 1, total_rows |-> 0,
     rows |-> <<>>, src |-> embFiles, dest |-> consolidated, value |-> None]

\* A client calls compact_provider(p)
CompactProviderCall ==
    /\ op.pc = "idle"
    /\ op' = CompactLocals("compact_provider", <<>>)
    /\ UNCHANGED <<last, embDir, embFiles, consolidated, convFiles, pipeVars, pullVars, written, credVars>>

\* compactor.rs:32-45 compact_all: list the providers, then compact each
CompactAllCall ==
    /\ op.pc = "idle"
    /\ \E providers \in list_embedding_providers :
         IF providers = <<>>
         THEN Return([call |-> "compact_all", result |-> "Ok"])
         ELSE /\ op' = CompactLocals("compact_all", Tail(providers))
              /\ UNCHANGED last
    /\ UNCHANGED <<embDir, embFiles, consolidated, convFiles, pipeVars, pullVars, written, credVars>>

\* compact_provider is over with `value`: None, Err or Some(CompactionResult)
Finish(value) == [op EXCEPT !.pc = "ret", !.value = value]

\* Mutant of CompactionResult: the files are counted where the rows should be
CompactionResultCountsFiles(files_merged, total_rows) ==
    [type |-> "Some", files_merged |-> files_merged, total_rows |-> files_merged]

CompactionResult(files_merged, total_rows) ==
    [type |-> "Some", files_merged |-> files_merged, total_rows |-> total_rows]
CompactNone == [type |-> "None"]
CompactErr == [type |-> "Err"]

\* Mutant of NothingToCompact: the early returns for a missing source
\* directory are gone
NothingToCompactUnchecked == embDir /\ DirFiles = {}

\* compactor.rs:56-73: the source directory is missing, or holds no *.parquet
NothingToCompact == ~embDir \/ DirFiles = {}

\* compactor.rs:52-73: nothing to compact: Ok(None); otherwise the entries
\* are collected in the order read_dir yields them
CompactCheck ==
    /\ op.pc = "check"
    /\ IF NothingToCompact
       THEN op' = Finish(CompactNone)
       ELSE \E parquet_files \in Perms(DirFiles) :
              op' = [op EXCEPT !.pc = "create_out", !.files = parquet_files,
                               !.src = embFiles]
    /\ UNCHANGED <<last, embDir, embFiles, consolidated, convFiles, pipeVars, pullVars, written, credVars>>

\* compactor.rs:76: File::create(&output_path)
CompactCreate ==
    /\ op.pc = "create_out"
    /\ \E ok \in BOOLEAN :
         IF ok
         THEN /\ consolidated' = FileCreate(consolidated)
              /\ op' = [op EXCEPT !.pc = "schema"]
         ELSE /\ op' = Finish(CompactErr)
              /\ UNCHANGED consolidated
    /\ UNCHANGED <<last, embDir, embFiles, convFiles, pipeVars, pullVars, written, credVars>>

\* compactor.rs:79-93: the schema is read from the first file (which must be
\* a closed parquet file) and the ArrowWriter is made
CompactSchema ==
    /\ op.pc = "schema"
    /\ \E ok \in BOOLEAN :
         IF ok /\ embFiles[op.files[1]].state = "complete"
         THEN op' = [op EXCEPT !.pc = "copy"]
         ELSE op' = Finish(CompactErr)
    /\ UNCHANGED <<last, embDir, embFiles, consolidated, convFiles, pipeVars, pullVars, written, credVars>>

\* compactor.rs:96-111: one iteration of `for file_path in &parquet_files`:
\* every batch of the file goes to the writer and is counted
CompactCopy ==
    /\ op.pc = "copy"
    /\ op.i <= Len(op.files)
    /\ LET file == embFiles[op.files[op.i]] IN
       \E ok \in BOOLEAN :
         IF ok /\ file.state = "complete"
         THEN op' = [op EXCEPT !.i = @ + 1,
                               !.total_rows = @ + Len(file.content),
                               !.rows = @ \o file.content]
         ELSE op' = Finish(CompactErr)
    /\ UNCHANGED <<last, embDir, embFiles, consolidated, convFiles, pipeVars, pullVars, written, credVars>>

\* Mutant of CompactClose: a failed close goes on to the removal
CompactCloseThenRemoveAnyway ==
    /\ op.pc = "copy"
    /\ op.i > Len(op.files)
    /\ \E ok \in BOOLEAN :
         IF ok
         THEN /\ consolidated' = WriterClose(op.rows)
              /\ op' = [op EXCEPT !.pc = "remove"]
         ELSE /\ op' = [op EXCEPT !.pc = "remove"]
              /\ UNCHANGED consolidated
    /\ UNCHANGED <<last, embDir, embFiles, convFiles, pipeVars, pullVars, written, credVars>>

\* compactor.rs:113-115: writer.close()
CompactClose ==
    /\ op.pc = "copy"
    /\ op.i > Len(op.files)
    /\ \E ok \in BOOLEAN :
         IF ok
         THEN /\ consolidated' = WriterClose(op.rows)
              /\ op' = [op EXCEPT !.pc = "remove"]
         ELSE /\ op' = Finish(CompactErr)
              /\ UNCHANGED consolidated
    /\ UNCHANGED <<last, embDir, embFiles, convFiles, pipeVars, pullVars, written, credVars>>

\* compactor.rs:118 fs::remove_dir_all: the entries are unlinked one by one
CompactRemoveFile ==
    /\ op.pc = "remove"
    /\ DirFiles # {}
    /\ \E ok \in BOOLEAN :
         IF ok
         THEN /\ \E c \in DirFiles : embFiles' = [embFiles EXCEPT ![c] = NoFile]
              /\ UNCHANGED op
         ELSE /\ op' = Finish(CompactErr)
              /\ UNCHANGED embFiles
    /\ UNCHANGED <<last, embDir, consolidated, convFiles, pipeVars, pullVars, written, credVars>>

\* compactor.rs:118-125: the emptied directory is removed, Ok(Some(result))
CompactRemoveDir ==
    /\ op.pc = "remove"
    /\ DirFiles = {}
    /\ \E ok \in BOOLEAN :
         IF ok
         THEN /\ embDir' = FALSE
              /\ op' = Finish(CompactionResult(Len(op.files), op.total_rows))
         ELSE /\ op' = Finish(CompactErr)
              /\ UNCHANGED embDir
    /\ UNCHANGED <<last, embFiles, consolidated, convFiles, pipeVars, pullVars, written, credVars>>

\* compact_provider returns to its caller: the client, or the loop of
\* compact_all (compactor.rs:39-44), which stops at the first Err
CompactReturn ==
    /\ op.pc = "ret"
    /\ IF op.call = "compact_provider"
       THEN Return([call |-> "compact_provider", result |-> op.value.type])
       ELSE IF op.value.type = "Err"
       THEN Return([call |-> "compact_all", result |-> "Err"])
       ELSE IF op.todo = <<>>
       THEN Return([call |-> "compact_all", result |-> "Ok"])
       ELSE /\ op' = [op EXCEPT !.pc = "check", !.todo = Tail(@),
                         !.results = IF op.value.type = "Some"
                                     THEN Append(@, op.value) ELSE @,
                         !.prev = "done", !.files = <<>>, !.i = 1,
                         !.total_rows = 0, !.rows = <<>>, !.value = None,
                         !.src = embFiles, !.dest = consolidated]
            /\ UNCHANGED last
    /\ UNCHANGED <<embDir, embFiles, consolidated, convFiles, pipeVars, pullVars, written, credVars>>

----------------------------------------------------------------------------
(* DuckDbQuery::search_semantic (storage/duckdb.rs:388-449)                *)

Abs(x) == IF x < 0 THEN -x ELSE x

\* duckdb.rs:425: list_distance(embedding, query) on the modelled coordinate
list_distance(embedding, query) == Abs(embedding - query)

SemanticSearchResult(row, query) ==
    [conversation_id |-> row.conversation_id, chunk_index |-> row.chunk_index,
     score |-> list_distance(row.embedding, query)]

RemoveAt(s, i) == SubSeq(s, 1, i - 1) \o SubSeq(s, i + 1, Len(s))

\* duckdb.rs:421-428: ORDER BY distance ASC LIMIT limit over the scanned rows;
\* the order among rows of equal distance is left to the engine, so this is
\* the set of results the query can return
RECURSIVE OrderByDistanceLimit(_, _, _)
OrderByDistanceLimit(rows, query, limit) ==
    IF limit = 0 \/ rows = <<>> THEN {<<>>}
    ELSE LET d(i) == list_distance(rows[i].embedding, query)
             nearest == {i \in DOMAIN rows : \A j \in DOMAIN rows : d(i) <= d(j)}
         IN UNION {{<<SemanticSearchResult(rows[i], query)>> \o rest :
                      rest \in OrderByDistanceLimit(RemoveAt(rows, i), query, limit - 1)} :
                   i \in nearest}

\* duckdb.rs:393-400: the files the glob embeddings/*/*.parquet matches: the
\* entries of the per-provider directories, one level below embeddings/
GlobEmbeddingFiles == IF embDir THEN DirFiles ELSE {}

\* The rows of a set of per-conversation files, file after file
RECURSIVE RowsOfFiles(_, _)
RowsOfFiles(files, store) ==
    IF files = {} THEN <<>>
    ELSE LET c == CHOOSE x \in files : TRUE
         IN store[c].content \o RowsOfFiles(files \ {c}, store)

SearchOk(results) == [type |-> "Ok", results |-> results]
SearchErr == [type |-> "Err"]

\* duckdb.rs:388-449: the results search_semantic can return.  No matching
\* file: Ok(vec![]) (has_parquet_files, duckdb.rs:292-327).  A matched file
\* that is not a closed parquet file makes read_parquet fail, which
\* has_parquet_files turns into Ok(vec![]) or Err by the error text.
search_semantic(query, limit) ==
    IF GlobEmbeddingFiles = {} THEN {SearchOk(<<>>)}
    ELSE IF \E c \in GlobEmbeddingFiles : embFiles[c].state # "complete"
    THEN {SearchOk(<<>>), SearchErr}
    ELSE {SearchOk(results) :
            results \in OrderByDistanceLimit(
                RowsOfFiles(GlobEmbeddingFiles, embFiles), query, limit)}

\* A client calls search_semantic
SearchSemantic(query, limit) ==
    /\ op.pc = "idle"
    /\ \E results \in search_semantic(query, limit) :
         Return([call |-> "search_semantic", result |-> results])
    /\ UNCHANGED <<embDir, embFiles, consolidated, convFiles, pipeVars, pullVars, written, credVars>>

----------------------------------------------------------------------------
(* MockStore (credentials.rs:74-122): a HashMap keyed by (service, user)   *)
(* behind Arc<Mutex<..>>, shared by several threads that call get, set and *)
(* delete.  Each call locks the mutex, works on the map and releases the   *)
(* guard when it returns.                                                  *)

MaxCallers == 2
MaxCalls == 2

Callers == 1..MaxCallers
Services == {"svc"}
Users == {"u1", "u2"}
Passwords == {"x", "y"}

NotFound == [type |-> "Err", error |-> "NotFound"]
Ok(value) == [type |-> "Ok", value |-> value]
Unit == "()"

\* Mutant of Key: the user is left out of the key
KeyByService(service, user) == <<service, "">>

\* credentials.rs:101,109,118: the key (service.to_string(), user.to_string())
Key(service, user) == <<service, user>>

\* HashMap::get(..).cloned().ok_or(NotFound), credentials.rs:100-103
MapGet(map, key) == IF key \in DOMAIN map THEN Ok(map[key]) ELSE NotFound

\* HashMap::insert, credentials.rs:108-111
MapInsert(map, key, value) ==
    [k \in DOMAIN map \cup {key} |-> IF k = key THEN value ELSE map[k]]

\* HashMap::remove, credentials.rs:117-118
MapRemove(map, key) == [k \in DOMAIN map \ {key} |-> map[k]]

CallerIdle(calls) == [pc |-> "idle", calls |-> calls]

\* A thread calls store.get / store.set / store.delete
CredCall(t, call, service, user, password) ==
    /\ callers[t].pc = "idle"
    /\ callers[t].calls < MaxCalls
    /\ call = "set" \/ password = Unit
    /\ call # "set" \/ password # Unit
    /\ callers' = [callers EXCEPT ![t] =
                     [pc |-> "lock", calls |-> @.calls, call |-> call,
                      service |-> service, user |-> user, password |-> password,
                      called |-> history.clock, value |-> None]]
    /\ history' = [history EXCEPT !.clock = @ + 1]
    /\ UNCHANGED <<mock_store, mutex, pipeVars, convFiles, storeVars, pullVars,
                   written>>

\* self.store.lock().unwrap(): the thread waits until the mutex is free.  No
\* holder panics, so the mutex is never poisoned.
CredLock(t) ==
    /\ callers[t].pc = "lock"
    /\ mutex = 0
    /\ mutex' = t
    /\ callers' = [callers EXCEPT ![t].pc = "locked"]
    /\ UNCHANGED <<mock_store, history, pipeVars, convFiles, storeVars, pullVars,
                   written>>

\* credentials.rs:100-103, 108-112, 117-120: the body of the call, under the
\* lock
CredBody(t) ==
    /\ callers[t].pc = "locked"
    /\ LET c == callers[t]
           key == Key(c.service, c.user)
       IN CASE c.call = "get" ->
                 /\ callers' = [callers EXCEPT ![t].pc = "return",
                                               ![t].value = MapGet(mock_store, key)]
                 /\ UNCHANGED mock_store
            [] c.call = "set" ->
                 /\ mock_store' = MapInsert(mock_store, key, c.password)
                 /\ callers' = [callers EXCEPT ![t].pc = "return",
                                               ![t].value = Ok(Unit)]
            [] c.call = "delete" ->
                 /\ mock_store' = MapRemove(mock_store, key)
                 /\ callers' = [callers EXCEPT
                                  ![t].pc = "return",
                                  ![t].value = IF key \in DOMAIN mock_store
                                               THEN Ok(Unit) ELSE NotFound]
    /\ UNCHANGED <<mutex, history, pipeVars, convFiles, storeVars, pullVars,
                   written>>

\* The call returns: the MutexGuard is dropped and the caller has the result
CredReturn(t) ==
    /\ callers[t].pc = "return"
    /\ mutex' = 0
    /\ history' = [clock |-> history.clock + 1,
                   calls |-> Append(history.calls,
                               [thread |-> t, call |-> callers[t].call,
                                service |-> callers[t].service,
                                user |-> callers[t].user,
                                password |-> callers[t].password,
                                value |-> callers[t].value,
                                called |-> callers[t].called,
                                returned |-> history.clock])]
    /\ callers' = [callers EXCEPT ![t] = CallerIdle(@.calls + 1)]
    /\ UNCHANGED <<mock_store, pipeVars, convFiles, storeVars, pullVars, written>>

\* MockStore::new() and no call yet
CredIdle ==
    /\ mock_store = <<>>
    /\ mutex = 0
    /\ callers = [t \in Callers |-> CallerIdle(0)]
    /\ history = [clock |-> 0, calls |-> <<>>]

----------------------------------------------------------------------------
(* Specification of one Pipeline::run call                                 *)

RECURSIVE SeqsUpTo(_, _)
SeqsUpTo(S, n) ==
    IF n = 0 THEN {<<>>}
    ELSE LET shorter == SeqsUpTo(S, n - 1)
         IN shorter \cup {Append(s, x) : s \in shorter, x \in S}

PipelineConfig ==
    [media_workers : 0..MaxWorkers, embed_workers : 0..MaxWorkers,
     channel_capacity : 1..MaxCapacity]

\* No pull is running and the operational index is empty
PullIdle ==
    /\ index = <<>>
    /\ pull = [pc |-> "idle"]

\* Nothing has been written through ParquetStore yet
NothingWritten == written = [path \in ConvPaths |-> None]

StoreIdle ==
    /\ embDir = FALSE
    /\ embFiles = [c \in ConvIds |-> NoFile]
    /\ consolidated = NoFile
    /\ op = Idle
    /\ last = [call |-> "none", result |-> "none"]

Init ==
    /\ conversations \in SeqsUpTo(Conversation, MaxConvs)
    /\ config \in PipelineConfig
    /\ opc = "start"
    /\ result = PipelineResultDefault
    /\ feeder = [pc |-> "unspawned", next |-> 1]
    /\ fetch_ch = <<>>
    /\ media_ch = <<>>
    /\ embed_ch = <<>>
    /\ media = [w \in MediaIds |-> [pc |-> "unspawned", msg |-> None]]
    /\ embed = [w \in EmbedIds |-> [pc |-> "unspawned", msg |-> None, out |-> None]]
    /\ convFiles = [path \in ConvPaths |-> NoFile]
    /\ sent = [i \in DOMAIN conversations |-> <<>>]
    /\ hist = [i \in DOMAIN conversations |-> "no"]
    /\ StoreIdle
    /\ PullIdle
    /\ NothingWritten
    /\ CredIdle

Next ==
    \/ RunStart
    \/ SpawnMedia
    \/ SpawnEmbed
    \/ Collect
    \/ CollectEnd
    \/ JoinAll
    \/ FeederSend
    \/ FeederExit
    \/ \E w \in MediaIds : MediaRecv(w)
    \/ \E w \in MediaIds : MediaExit(w)
    \/ \E w \in MediaIds : MediaSend(w)
    \/ \E w \in EmbedIds : EmbedRecv(w)
    \/ \E w \in EmbedIds : EmbedExit(w)
    \/ \E w \in EmbedIds : EmbedCreate(w)
    \/ \E w \in EmbedIds : EmbedWrite(w)
    \/ \E w \in EmbedIds : EmbedSend(w)

Spec == Init /\ [][Next]_vars

\* Threads are scheduled by the OS: a thread that can take a step eventually does
FairSpec == Spec /\ WF_vars(Next)

----------------------------------------------------------------------------
(* Specification of the embedding storage: any sequence of                 *)
(* write_embeddings, compact_provider, compact_all and search_semantic     *)
(* calls, with a crash possible inside any call                            *)

PipelineIdle ==
    /\ conversations = <<>>
    /\ config = [media_workers |-> 1, embed_workers |-> 1, channel_capacity |-> 1]
    /\ opc = "returned"
    /\ result = PipelineResultDefault
    /\ feeder = [pc |-> "unspawned", next |-> 1]
    /\ fetch_ch = <<>>
    /\ media_ch = <<>>
    /\ embed_ch = <<>>
    /\ media = [w \in MediaIds |-> [pc |-> "unspawned", msg |-> None]]
    /\ embed = [w \in EmbedIds |-> [pc |-> "unspawned", msg |-> None, out |-> None]]
    /\ convFiles = [path \in ConvPaths |-> NoFile]
    /\ sent = <<>>
    /\ hist = <<>>

StoreInit == PipelineIdle /\ StoreIdle /\ PullIdle /\ NothingWritten /\ CredIdle

StoreNext ==
    \/ \E id \in ConvIds, chunks \in 0..MaxChunks,
          embeddings \in EmbeddingInputs :
            WriteEmbeddingsCall(id, chunks, embeddings)
    \/ WriteEmbeddingsMkdir
    \/ WriteEmbeddingsCreate
    \/ WriteEmbeddingsClose
    \/ CompactProviderCall
    \/ CompactAllCall
    \/ CompactCheck
    \/ CompactCreate
    \/ CompactSchema
    \/ CompactCopy
    \/ CompactClose
    \/ CompactRemoveFile
    \/ CompactRemoveDir
    \/ CompactReturn
    \/ \E query \in Queries, limit \in 0..MaxLimit : SearchSemantic(query, limit)
    \/ Crash

StoreSpec == StoreInit /\ [][StoreNext]_vars

----------------------------------------------------------------------------
(* Specification of the stage workers on their own, as the tests of        *)
(* stages.rs drive them: the input channel holds any messages, control     *)
(* messages included, its sender has been dropped, the workers of both     *)
(* stages run and the caller reads the last channel                        *)

TestConversation == [id |-> "c1", provider_id |-> Provider, messages |-> <<>>]

InputMessages ==
    {ConversationFetched(1, TestConversation),
     Error(1, "c1", "fetch", "Fetch failed"),
     Shutdown}

WorkerInit ==
    /\ conversations = <<TestConversation>>
    /\ config \in {c \in PipelineConfig : c.media_workers >= 1}
    /\ opc = "collect"
    /\ result = PipelineResultDefault
    /\ feeder = [pc |-> "done", next |-> 2]
    /\ fetch_ch \in {ch \in SeqsUpTo(InputMessages, MaxCapacity) :
                       Len(ch) <= config.channel_capacity}
    /\ media_ch = <<>>
    /\ embed_ch = <<>>
    /\ media = [w \in MediaIds |->
                  [pc |-> IF w <= config.media_workers THEN "recv" ELSE "unspawned",
                   msg |-> None]]
    /\ embed = [w \in EmbedIds |->
                  [pc |-> IF w <= config.embed_workers THEN "recv" ELSE "unspawned",
                   msg |-> None, out |-> None]]
    /\ convFiles = [path \in ConvPaths |-> NoFile]
    /\ sent = <<<<>>>>
    /\ hist = <<"no">>
    /\ StoreIdle
    /\ PullIdle
    /\ NothingWritten
    /\ CredIdle

WorkerNext ==
    \/ Collect
    \/ CollectEnd
    \/ JoinAll
    \/ \E w \in MediaIds : MediaRecv(w)
    \/ \E w \in MediaIds : MediaExit(w)
    \/ \E w \in MediaIds : MediaSend(w)
    \/ \E w \in EmbedIds : EmbedRecv(w)
    \/ \E w \in EmbedIds : EmbedExit(w)
    \/ \E w \in EmbedIds : EmbedCreate(w)
    \/ \E w \in EmbedIds : EmbedWrite(w)
    \/ \E w \in EmbedIds : EmbedSend(w)

WorkerSpec == WorkerInit /\ [][WorkerNext]_vars

----------------------------------------------------------------------------
(* EmbeddingsCompactor::needs_compaction and status (compactor.rs:128-181) *)
(* on the embedding storage, next to write_embeddings and the compactions  *)

\* compactor.rs:129-132: does embeddings/<provider>/ exist as a directory
needs_compaction(provider) == embDir

\* compactor.rs:146-175: the record of one provider; the consolidated file is
\* looked at first, and its metadata is read from its footer
ProviderStatus(provider) ==
    IF consolidated.state # "absent"
    THEN IF consolidated.state = "complete"
         THEN [type |-> "Some", provider |-> provider, is_consolidated |-> TRUE,
               file_count |-> 1, total_rows |-> Len(consolidated.content)]
         ELSE [type |-> "Err"]
    ELSE IF embDir
    THEN [type |-> "Some", provider |-> provider, is_consolidated |-> FALSE,
          file_count |-> Cardinality(DirFiles), total_rows |-> 0]
    ELSE [type |-> "None"]

\* compactor.rs:141-180: one record per listed provider, in listing order; the
\* first Err ends the call
RECURSIVE status(_)
status(providers) ==
    IF providers = <<>> THEN [type |-> "Ok", statuses |-> <<>>]
    ELSE LET first == ProviderStatus(Head(providers))
             rest == status(Tail(providers))
         IN IF first.type = "Err" \/ rest.type = "Err" THEN [type |-> "Err"]
            ELSE IF first.type = "None" THEN rest
            ELSE [type |-> "Ok",
                  statuses |-> <<[provider |-> first.provider,
                                  is_consolidated |-> first.is_consolidated,
                                  file_count |-> first.file_count,
                                  total_rows |-> first.total_rows]>>
                               \o rest.statuses]

\* A client calls status() (commands/compact.rs:12)
Status ==
    /\ op.pc = "idle"
    /\ \E providers \in list_embedding_providers :
         Return([call |-> "status", result |-> status(providers)])
    /\ UNCHANGED <<embDir, embFiles, consolidated, convFiles, pipeVars, pullVars,
                   written, credVars>>

\* A client calls needs_compaction(p)
NeedsCompaction ==
    /\ op.pc = "idle"
    /\ Return([call |-> "needs_compaction", result |-> needs_compaction(Provider)])
    /\ UNCHANGED <<embDir, embFiles, consolidated, convFiles, pipeVars, pullVars,
                   written, credVars>>

StatusNext ==
    \/ \E id \in ConvIds, chunks \in 0..MaxChunks,
          embeddings \in EmbeddingInputs :
            WriteEmbeddingsCall(id, chunks, embeddings)
    \/ WriteEmbeddingsMkdir
    \/ WriteEmbeddingsCreate
    \/ WriteEmbeddingsClose
    \/ CompactProviderCall
    \/ CompactAllCall
    \/ CompactCheck
    \/ CompactCreate
    \/ CompactSchema
    \/ CompactCopy
    \/ CompactClose
    \/ CompactRemoveFile
    \/ CompactRemoveDir
    \/ CompactReturn
    \/ Status
    \/ NeedsCompaction

StatusSpec == StoreInit /\ [][StatusNext]_vars

----------------------------------------------------------------------------
(* Specification of the credential store: MaxCallers threads share one     *)
(* MockStore and make up to MaxCalls calls each                            *)

CredInit == PipelineIdle /\ StoreIdle /\ PullIdle /\ NothingWritten /\ CredIdle

CredNext ==
    \/ \E t \in Callers, call \in {"get", "set", "delete"}, service \in Services,
          user \in Users, password \in Passwords \cup {Unit} :
            CredCall(t, call, service, user, password)
    \/ \E t \in Callers : CredLock(t)
    \/ \E t \in Callers : CredBody(t)
    \/ \E t \in Callers : CredReturn(t)

CredSpec == CredInit /\ [][CredNext]_vars

----------------------------------------------------------------------------
(* The pull driver (commands/pull.rs): pull_chatgpt and its siblings list  *)
(* the remote conversations, skip the unchanged ones, fetch and save the   *)
(* others into the operational index and hand them to run_pipeline         *)

MaxTime == 2
MaxCpus == 2

Times == 1..MaxTime

\* chrono DateTime::to_rfc3339 and DateTime::parse_from_rfc3339: the text
\* stored in the updated_at column, and what is read back from it
to_rfc3339(t) == [rfc3339 |-> t]
parse_from_rfc3339(text) ==
    IF DOMAIN text = {"rfc3339"} THEN [type |-> "Ok", value |-> text.rfc3339]
    ELSE [type |-> "Err"]

\* A remote listing: conversations with distinct ids and their updated_at
Listings ==
    {l \in SeqsUpTo([id : ConvIds, updated_at : Times], MaxConvs) :
        \A a, b \in DOMAIN l : l[a].id = l[b].id => a = b}

\* The rows save_conversation can have left in the conversations table
Indexes ==
    UNION {[S -> {to_rfc3339(t) : t \in Times}] : S \in SUBSET ConvIds}

\* storage/mod.rs:241-261 Store::get_conversation_updated_at: the results the
\* query can give: the parsed column, None when there is no row or the text
\* does not parse, or the Err of a failed query
get_conversation_updated_at(id) ==
    {[type |-> "Err"]} \cup
    {IF id \notin DOMAIN index THEN [type |-> "Ok", value |-> None]
     ELSE LET parsed == parse_from_rfc3339(index[id])
          IN IF parsed.type = "Ok"
             THEN [type |-> "Ok", value |-> [type |-> "Some", at |-> parsed.value]]
             ELSE [type |-> "Ok", value |-> None]}

\* Mutant of should_skip: an unchanged remote updated_at is not skipped
should_skip_strict(remote_updated_at, new_only, looked_up) ==
    /\ new_only
    /\ looked_up.type = "Ok" /\ looked_up.value.type = "Some"
    /\ remote_updated_at < looked_up.value.at

\* pull.rs:47-64 should_skip, given what get_conversation_updated_at returned
should_skip(remote_updated_at, new_only, looked_up) ==
    /\ new_only
    /\ looked_up.type = "Ok" /\ looked_up.value.type = "Some"
    /\ remote_updated_at <= looked_up.value.at

\* config.rs:22-31 PipelineConfig::new on a machine with `cpus` CPUs
PipelineConfig_new(cpus) ==
    [media_workers |-> cpus \div 2, embed_workers |-> cpus \div 2,
     channel_capacity |-> 100]

\* The pull is at conversations[i] of the listing
PullAt == pull.listing[pull.i]

PullAdvance(outcome) ==
    [pull EXCEPT !.pc = "loop", !.i = @ + 1, !.trace = Append(@, outcome)]

\* pull.rs:140-145: the loop head and the should_skip test; the index is
\* looked up only when new_only is set (pull.rs:53-55)
PullCheck ==
    /\ pull.pc = "loop" /\ pull.i <= Len(pull.listing)
    /\ \E looked_up \in (IF pull.new_only
                          THEN get_conversation_updated_at(PullAt.id)
                          ELSE {None}) :
         IF should_skip(PullAt.updated_at, pull.new_only, looked_up)
         THEN pull' = [PullAdvance("skipped") EXCEPT !.skipped = @ + 1,
                                                     !.looked_up = looked_up]
         ELSE pull' = [pull EXCEPT !.pc = "fetch", !.looked_up = looked_up]
    /\ UNCHANGED <<index, pipeVars, convFiles, storeVars, written, credVars>>

\* pull.rs:154-176: provider.conversation(id) returns the full conversation
\* and its messages, or fails and the conversation is counted as failed
PullFetch ==
    /\ pull.pc = "fetch"
    /\ \/ \E updated_at \in PullAt.updated_at..MaxTime, messages \in MessageLists :
            pull' = [pull EXCEPT !.pc = "save",
                       !.fetched = [id |-> PullAt.id, updated_at |-> updated_at,
                                    messages |-> messages]]
       \/ pull' = [PullAdvance("failed") EXCEPT !.failed = @ + 1]
    /\ UNCHANGED <<index, pipeVars, convFiles, storeVars, written, credVars>>

\* pull.rs:156-170 with storage/mod.rs:212-238 save_conversation: the row is
\* inserted or its updated_at replaced, the messages are saved and the
\* conversation is collected for the pipeline; an Err of the store ends the
\* pull through `?`
PullSave ==
    /\ pull.pc = "save"
    /\ \/ /\ index' = [id \in DOMAIN index \cup {pull.fetched.id} |->
                         IF id = pull.fetched.id
                         THEN to_rfc3339(pull.fetched.updated_at) ELSE index[id]]
          /\ pull' = [PullAdvance("synced") EXCEPT
                        !.synced = @ + 1,
                        !.pipeline_data =
                            Append(@, [id |-> pull.fetched.id,
                                       provider_id |-> Provider,
                                       messages |-> pull.fetched.messages])]
       \/ /\ pull' = [pull EXCEPT !.pc = "done", !.value = "Err"]
          /\ UNCHANGED index
    /\ UNCHANGED <<pipeVars, convFiles, storeVars, written, credVars>>

\* pull.rs:213-216, 491-499: after the loop, run_pipeline builds
\* PipelineConfig::new and calls Pipeline::run on the collected conversations
PullRunPipeline ==
    /\ pull.pc = "loop" /\ pull.i > Len(pull.listing)
    /\ IF pull.pipeline_data = <<>>
       THEN /\ pull' = [pull EXCEPT !.pc = "done", !.value = "Ok"]
            /\ UNCHANGED <<conversations, config, opc, sent, hist>>
       ELSE /\ pull' = [pull EXCEPT !.pc = "pipeline"]
            /\ conversations' = pull.pipeline_data
            /\ config' = PipelineConfig_new(pull.cpus)
            /\ opc' = "start"
            /\ sent' = [i \in DOMAIN pull.pipeline_data |-> <<>>]
            /\ hist' = [i \in DOMAIN pull.pipeline_data |-> "no"]
    /\ UNCHANGED <<result, feeder, fetch_ch, media_ch, embed_ch, media, embed,
                   index, convFiles, storeVars, written, credVars>>

\* pull.rs:501-523: Pipeline::run has returned; the result is printed.
\* compact_embeddings (pull.rs:528-545) finds no provider to compact, since
\* embed_worker leaves embeddings/ empty
PullDone ==
    /\ pull.pc = "pipeline" /\ opc = "returned"
    /\ ~embDir /\ consolidated.state = "absent"
    /\ pull' = [pull EXCEPT !.pc = "done", !.value = "Ok"]
    /\ UNCHANGED <<index, pipeVars, convFiles, storeVars, written, credVars>>

PullInit ==
    /\ PipelineIdle
    /\ StoreIdle
    /\ NothingWritten
    /\ CredIdle
    /\ index \in Indexes
    /\ \E new_only \in BOOLEAN, listing \in Listings, cpus \in 1..MaxCpus :
         pull = [pc |-> "loop", new_only |-> new_only, listing |-> listing,
                 cpus |-> cpus, i |-> 1, synced |-> 0, skipped |-> 0,
                 failed |-> 0, pipeline_data |-> <<>>, fetched |-> None,
                 looked_up |-> None,
                 trace |-> <<>>, index0 |-> index, value |-> "none"]

PullNext ==
    \/ PullCheck
    \/ PullFetch
    \/ PullSave
    \/ PullRunPipeline
    \/ PullDone
    \/ RunStart
    \/ SpawnMedia
    \/ SpawnEmbed
    \/ Collect
    \/ CollectEnd
    \/ JoinAll
    \/ FeederSend
    \/ FeederExit
    \/ \E w \in MediaIds : MediaRecv(w)
    \/ \E w \in MediaIds : MediaExit(w)
    \/ \E w \in MediaIds : MediaSend(w)
    \/ \E w \in EmbedIds : EmbedRecv(w)
    \/ \E w \in EmbedIds : EmbedExit(w)
    \/ \E w \in EmbedIds : EmbedCreate(w)
    \/ \E w \in EmbedIds : EmbedWrite(w)
    \/ \E w \in EmbedIds : EmbedSend(w)

PullSpec == PullInit /\ [][PullNext]_vars

----------------------------------------------------------------------------
(* ParquetStore::write_conversation and read_conversation                  *)
(* (storage/parquet.rs:68-404), called by a sequential client.  Here the   *)
(* conversation and its messages carry the fields the file stores, where   *)
(* the pipeline specification keeps them abstract.                         *)

MaxSubMilli == 1

\* chrono DateTime<Utc>: whole milliseconds and what lies below them
DateTimes == [millis : Times, sub : 0..MaxSubMilli]

\* DateTime::timestamp_millis (parquet.rs:97-98,139) and
\* DateTime::from_timestamp_millis (parquet.rs:253-262,371)
timestamp_millis(dt) == dt.millis
from_timestamp_millis(ms) == [millis |-> ms, sub |-> 0]

Some(x) == [type |-> "Some", value |-> x]

Roles == {"User", "Assistant"}

\* parquet.rs:129-134: the match that names the role in the msg_role column
role_to_str(role) ==
    CASE role = "User" -> "user"
      [] role = "Assistant" -> "assistant"
      [] role = "System" -> "system"
      [] role = "Tool" -> "tool"

\* parquet.rs:346-352: the match that reads it back, User for any other text
role_from_str(text) ==
    CASE text = "user" -> "User"
      [] text = "assistant" -> "Assistant"
      [] text = "system" -> "System"
      [] text = "tool" -> "Tool"
      [] OTHER -> "User"

\* serde_json::to_string(&m.content) (parquet.rs:128) and
\* serde_json::from_str with its Text fallback (parquet.rs:354-359)
to_json(content) == [json |-> content]
from_json(text) ==
    IF DOMAIN text = {"json"} THEN text.json
    ELSE [type |-> "text", text |-> text]

StoredConversations ==
    [id : ConvIds, provider_id : {Provider}, title : {"t1"},
     updated_at : DateTimes]

StoredMessage(id, conversation_id, role, text, created_at) ==
    [id |-> id, conversation_id |-> conversation_id, parent_id |-> None,
     role |-> role, content |-> [type |-> "text", text |-> text],
     created_at |-> created_at]

\* The message lists a provider hands over for conversation `id`
StoredMessageLists(id) ==
    LET m1 == StoredMessage("m1", id, "User", "a", None)
        m2 == StoredMessage("m2", id, "Assistant", "b",
                            Some([millis |-> 1, sub |-> 0]))
    IN {<<>>, <<m1>>, <<m1, m2>>, <<m2, m1>>}

\* parquet.rs:94-196: the record batch, one row per message with the
\* conversation's columns repeated, or one placeholder row with an empty
\* msg_id when there is no message
ConversationColumns(conv) ==
    [conv_id |-> conv.id, conv_provider_id |-> conv.provider_id,
     conv_title |-> conv.title,
     conv_updated_at |-> timestamp_millis(conv.updated_at)]

RecordBatch(conv, messages) ==
    IF messages = <<>>
    THEN <<[conv |-> ConversationColumns(conv), msg_id |-> "",
            msg_parent_id |-> None, msg_role |-> "",
            msg_content_json |-> "", msg_created_at |-> None]>>
    ELSE [i \in DOMAIN messages |->
            [conv |-> ConversationColumns(conv), msg_id |-> messages[i].id,
             msg_parent_id |-> messages[i].parent_id,
             msg_role |-> role_to_str(messages[i].role),
             msg_content_json |-> to_json(messages[i].content),
             msg_created_at |->
                 IF messages[i].created_at = None THEN None
                 ELSE Some(timestamp_millis(messages[i].created_at.value))]]

RECURSIVE ReadMessages(_, _)
\* parquet.rs:336-394: the messages of the rows, placeholder rows skipped
ReadMessages(rows, conversation_id) ==
    IF rows = <<>> THEN <<>>
    ELSE LET row == Head(rows)
             rest == ReadMessages(Tail(rows), conversation_id)
         IN IF row.msg_id = "" THEN rest
            ELSE <<[id |-> row.msg_id, conversation_id |-> conversation_id,
                    parent_id |-> row.msg_parent_id,
                    role |-> role_from_str(row.msg_role),
                    content |-> from_json(row.msg_content_json),
                    created_at |->
                        IF row.msg_created_at = None THEN None
                        ELSE Some(from_timestamp_millis(row.msg_created_at.value))]>>
                 \o rest

\* parquet.rs:232-314: the conversation is rebuilt from the first row
ReadConversationRow(row) ==
    [id |-> row.conv.conv_id, provider_id |-> row.conv.conv_provider_id,
     title |-> row.conv.conv_title,
     updated_at |-> from_timestamp_millis(row.conv.conv_updated_at)]

\* parquet.rs:209-398 read_conversation: None when the path does not exist,
\* Err when the reader cannot open what is there, else the decoded rows
read_conversation(provider, conversation_id) ==
    LET file == convFiles[<<provider, conversation_id>>]
    IN CASE file.state = "absent" -> [type |-> "Ok", value |-> None]
         [] file.state = "partial" -> [type |-> "Err"]
         [] OTHER ->
              [type |-> "Ok",
               value |-> Some([conversation |-> ReadConversationRow(file.content[1]),
                               messages |-> ReadMessages(file.content,
                                                         conversation_id)])]

\* parquet.rs:74-81: create_dir_all and File::create at the final path
WriteConversationCall(conv, messages) ==
    /\ op.pc = "idle"
    /\ \/ /\ convFiles' = [convFiles EXCEPT ![conversation_path(conv)] = FileCreate(@)]
          /\ op' = [pc |-> "wc_write", call |-> "write_conversation",
                    conv |-> conv, messages |-> messages]
          /\ UNCHANGED last
       \/ /\ Return([call |-> "write_conversation", result |-> "Err"])
          /\ UNCHANGED convFiles
    /\ UNCHANGED <<pipeVars, embDir, embFiles, consolidated, pullVars, written, credVars>>

\* parquet.rs:82-206: the batch is built, written and the writer closed; an
\* Err on the way leaves the file as File::create made it
WriteConversationClose ==
    /\ op.pc = "wc_write"
    /\ LET path == conversation_path(op.conv)
       IN \/ /\ convFiles' = [convFiles EXCEPT
                                ![path] = WriterClose(RecordBatch(op.conv, op.messages))]
             /\ written' = [written EXCEPT
                              ![path] = Some([conversation |-> op.conv,
                                              messages |-> op.messages])]
             /\ Return([call |-> "write_conversation", result |-> "Ok"])
          \/ /\ Return([call |-> "write_conversation", result |-> "Err"])
             /\ UNCHANGED <<convFiles, written, credVars>>
    /\ UNCHANGED <<pipeVars, embDir, embFiles, consolidated, pullVars, credVars>>

ReadConversation(provider, conversation_id) ==
    /\ op.pc = "idle"
    /\ Return([call |-> "read_conversation",
               path |-> <<provider, conversation_id>>,
               result |-> read_conversation(provider, conversation_id)])
    /\ UNCHANGED <<pipeVars, convFiles, embDir, embFiles, consolidated,
                   pullVars, written, credVars>>

ParquetInit == PipelineIdle /\ StoreIdle /\ PullIdle /\ NothingWritten /\ CredIdle

ParquetNext ==
    \/ \E conv \in StoredConversations :
         \E messages \in StoredMessageLists(conv.id) :
            WriteConversationCall(conv, messages)
    \/ WriteConversationClose
    \/ \E id \in ConvIds : ReadConversation(Provider, id)

ParquetSpec == ParquetInit /\ [][ParquetNext]_vars

----------------------------------------------------------------------------
(* DuckDbQuery::search_hybrid (storage/duckdb.rs:454-532) over a store of  *)
(* closed per-conversation embedding files.  The FTS candidates are what   *)
(* search_messages returned; the semantic candidates are computed by       *)
(* search_semantic from the stored rows.                                   *)

K == 60

\* The largest rank a candidate can have: the lists are drawn at limit * 3
MaxRank == 3 * MaxLimit - 1

RECURSIVE Gcd(_, _)
Gcd(a, b) == IF b = 0 THEN a ELSE Gcd(b, a % b)

RECURSIVE LcmUpTo(_)
\* The least common multiple of K, K + 1, ..., K + rank
LcmUpTo(rank) ==
    IF rank = 0 THEN K
    ELSE LET rest == LcmUpTo(rank - 1)
         IN (rest \div Gcd(rest, K + rank)) * (K + rank)

\* Scores are kept as exact multiples of 1 / RrfScale
RrfScale == LcmUpTo(MaxRank)

\* Mutant of RrfScore: the rank is counted from 1
RrfScoreFromOne(rank) == RrfScale \div (K + rank + 1)

\* duckdb.rs:495,504: 1.0 / (K + rank as f32), rank from enumerate()
RrfScore(rank) == RrfScale \div (K + rank)

\* traits.rs SearchResult, as search_messages returns it (duckdb.rs:170-173);
\* the snippet is named by the message it was cut from
SearchResult(conversation_id, message) ==
    [conversation_id |-> conversation_id, snippet |-> message]

\* What search_messages(query, limit * 3) can have returned
FtsResults ==
    {<<>>,
     <<SearchResult("c1", 1)>>,
     <<SearchResult("c1", 1), SearchResult("c2", 1)>>,
     <<SearchResult("c2", 1), SearchResult("c1", 1), SearchResult("c1", 2)>>}

\* message_id and chunk_text of a hybrid result: those of a stored chunk, or
\* an empty message_id with an FTS snippet as the text
NoMessage == [from |-> "none", index |-> 0]
OfChunk(r) == [from |-> "chunk", index |-> r.chunk_index]
OfSnippet(r) == [from |-> "snippet", index |-> r.snippet]

HybridResult(conversation_id, message_id, chunk_text, score) ==
    [conversation_id |-> conversation_id, message_id |-> message_id,
     chunk_text |-> chunk_text, score |-> score]

\* HashMap::entry(key).or_insert(value): the map with the key present
OrInsert(map, key, value) ==
    IF key \in DOMAIN map THEN map
    ELSE [k \in DOMAIN map \cup {key} |-> IF k = key THEN value ELSE map[k]]

RECURSIVE AddFtsScores(_, _, _)
\* duckdb.rs:493-499: the loop over fts_results from position i on
AddFtsScores(combined, fts_results, i) ==
    IF i > Len(fts_results) THEN combined
    ELSE LET r == fts_results[i]
             entry == OrInsert(combined, r.conversation_id,
                               [message_id |-> NoMessage,
                                chunk_text |-> OfSnippet(r), score |-> 0])
         IN AddFtsScores(
                [entry EXCEPT ![r.conversation_id].score = @ + RrfScore(i - 1)],
                fts_results, i + 1)

RECURSIVE AddSemanticScores(_, _, _)
\* duckdb.rs:502-514: the loop over semantic_results from position i on
AddSemanticScores(combined, semantic_results, i) ==
    IF i > Len(semantic_results) THEN combined
    ELSE LET r == semantic_results[i]
             entry == OrInsert(combined, r.conversation_id,
                               [message_id |-> OfChunk(r),
                                chunk_text |-> OfChunk(r), score |-> 0])
         IN AddSemanticScores(
                [entry EXCEPT ![r.conversation_id] =
                    [message_id |-> OfChunk(r), chunk_text |-> OfChunk(r),
                     score |-> @.score + RrfScore(i - 1)]],
                semantic_results, i + 1)

Min(a, b) == IF a <= b THEN a ELSE b

\* Vec::truncate(limit) and Iterator::take(limit)
Truncate(s, limit) == SubSeq(s, 1, Min(limit, Len(s)))

\* duckdb.rs:517-529: the map is drained in the order of its hasher, which
\* differs from one HashMap to the next, then stably sorted by descending
\* score and truncated: the results the fusion can return
FuseResults(combined, limit) ==
    {Truncate([i \in DOMAIN order |->
                  HybridResult(order[i], combined[order[i]].message_id,
                               combined[order[i]].chunk_text,
                               combined[order[i]].score)], limit) :
        order \in {o \in Perms(DOMAIN combined) :
                     \A i, j \in DOMAIN o :
                        i < j => combined[o[i]].score >= combined[o[j]].score}}

\* Mutant of FtsFallback: the FTS candidates are not cut down to limit
FtsFallbackUncut(fts_results, limit) ==
    [i \in DOMAIN fts_results |->
        HybridResult(fts_results[i].conversation_id, NoMessage,
                     OfSnippet(fts_results[i]), 0)]

\* duckdb.rs:471-483: the FTS results in the shape of semantic ones
FtsFallback(fts_results, limit) ==
    Truncate([i \in DOMAIN fts_results |->
                 HybridResult(fts_results[i].conversation_id, NoMessage,
                              OfSnippet(fts_results[i]), 0)], limit)

\* duckdb.rs:461-531 after search_messages returned fts_results: the
\* outcomes search_hybrid can have, each with the path taken and the semantic
\* candidates it drew
search_hybrid(fts_results, query, limit) ==
    IF fts_results = <<>>
    THEN {[path |-> "semantic", semantic |-> <<>>, result |-> r] :
             r \in search_semantic(query, limit)}
    ELSE UNION {
           IF sem = SearchErr
           THEN {[path |-> "error", semantic |-> <<>>, result |-> SearchErr]}
           ELSE IF sem.results = <<>>
           THEN {[path |-> "fts", semantic |-> <<>>,
                  result |-> SearchOk(FtsFallback(fts_results, limit))]}
           ELSE {[path |-> "fused", semantic |-> sem.results,
                  result |-> SearchOk(fused)] :
                   fused \in FuseResults(
                       AddSemanticScores(AddFtsScores(<<>>, fts_results, 1),
                                         sem.results, 1),
                       limit)} :
           sem \in search_semantic(query, limit * 3)}

\* A client calls search_hybrid; search_messages (duckdb.rs:134-178, LIMIT
\* limit * 3) returns fts_results or fails
SearchHybrid(fts_results, query, limit) ==
    /\ op.pc = "idle"
    /\ Len(fts_results) <= limit * 3
    /\ \/ \E out \in search_hybrid(fts_results, query, limit) :
            Return([call |-> "search_hybrid", fts |-> fts_results,
                    query |-> query, limit |-> limit, path |-> out.path,
                    semantic |-> out.semantic, result |-> out.result])
       \/ Return([call |-> "search_hybrid", fts |-> fts_results,
                  query |-> query, limit |-> limit, path |-> "fts_error",
                  semantic |-> <<>>, result |-> SearchErr])
    /\ UNCHANGED <<embDir, embFiles, consolidated, convFiles, pipeVars,
                   pullVars, written, credVars>>

\* The stores the searches run on: for each conversation no file, or the
\* closed file of one write_embeddings call
QueryStores ==
    [ConvIds -> {<<>>, <<Vector(0)>>, <<Vector(2), Vector(0)>>}]

QueryInit ==
    /\ PipelineIdle /\ PullIdle /\ NothingWritten /\ CredIdle
    /\ \E stored \in QueryStores :
         /\ embFiles = [c \in ConvIds |->
                          IF stored[c] = <<>> THEN NoFile
                          ELSE CompleteFile(EmbeddingRows(c, stored[c]))]
         /\ embDir = (\E c \in ConvIds : stored[c] # <<>>)
    /\ consolidated = NoFile
    /\ op = Idle
    /\ last = [call |-> "none", result |-> "none"]

QueryNext ==
    \/ \E query \in Queries, limit \in 0..MaxLimit : SearchSemantic(query, limit)
    \/ \E fts_results \in FtsResults, query \in Queries, limit \in 0..MaxLimit :
         SearchHybrid(fts_results, query, limit)

QuerySpec == QueryInit /\ [][QueryNext]_vars

----------------------------------------------------------------------------
(* MessageChunker::chunk_text (embeddings/chunker.rs:94-193).  A text is   *)
(* its sequence of UTF-8 bytes: "a" a letter, " " a space, "n" a newline,  *)
(* "." a sentence end, and "L" "c" the two bytes of one wider character.   *)
(* Byte indices count from 0 as in the code.                               *)

MaxTextLen == 5
MaxChunkChars == 3
MaxOverlap == 3

Bytes == {"a", " ", "n", ".", "L", "c"}
Whitespace == {" ", "n"}

\* The valid UTF-8 strings: a continuation byte follows its leading byte
Texts ==
    {t \in SeqsUpTo(Bytes, MaxTextLen) :
        /\ \A i \in DOMAIN t : t[i] = "L" => (i < Len(t) /\ t[i + 1] = "c")
        /\ \A i \in DOMAIN t : t[i] = "c" => (i > 1 /\ t[i - 1] = "L")}

ChunkerConfig ==
    [max_chunk_chars : 1..MaxChunkChars, overlap_chars : 0..MaxOverlap]

\* str::is_char_boundary
is_char_boundary(s, idx) ==
    idx = 0 \/ idx = Len(s) \/ (idx < Len(s) /\ s[idx + 1] # "c")

\* chunker.rs:51-61
floor_char_boundary(s, idx) ==
    IF idx >= Len(s) THEN Len(s)
    ELSE CHOOSE i \in 0..idx :
            /\ is_char_boundary(s, i)
            /\ \A j \in (i + 1)..idx : ~is_char_boundary(s, j)

\* chunker.rs:64-74
ceil_char_boundary(s, idx) ==
    IF idx >= Len(s) THEN Len(s)
    ELSE CHOOSE i \in idx..Len(s) :
            /\ is_char_boundary(s, i)
            /\ \A j \in idx..(i - 1) : ~is_char_boundary(s, j)

\* usize::saturating_sub
saturating_sub(a, b) == IF a >= b THEN a - b ELSE 0

\* &s[from..to], for from <= to on character boundaries
Slice(s, from, to) == SubSeq(s, from + 1, to)

RECURSIVE trim_start(_)
trim_start(s) ==
    IF s # <<>> /\ Head(s) \in Whitespace THEN trim_start(Tail(s)) ELSE s

RECURSIVE trim_end(_)
trim_end(s) ==
    IF s # <<>> /\ s[Len(s)] \in Whitespace
    THEN trim_end(SubSeq(s, 1, Len(s) - 1)) ELSE s

\* str::trim
trim(s) == trim_end(trim_start(s))

\* The largest element of a non-empty set of numbers
Largest(S) == CHOOSE x \in S : \A y \in S : y <= x

\* chunker.rs:148-193 find_break_point
find_break_point(text, end, cfg) ==
    LET max_end == floor_char_boundary(text, end)
        search_start ==
            ceil_char_boundary(text, saturating_sub(max_end, cfg.overlap_chars))
        search_text == Slice(text, search_start, max_end)
        at(pos) == search_text[pos + 1]
        positions == 0..(Len(search_text) - 1)
        paragraphs == {pos \in positions :
                         pos + 1 \in positions /\ at(pos) = "n" /\ at(pos + 1) = "n"}
        sentences == {i \in positions :
                        /\ at(i) = "."
                        /\ \/ search_start + i + 1 >= max_end
                           \/ text[search_start + i + 2] \in Whitespace}
        lines == {pos \in positions : at(pos) = "n"}
        spaces == {pos \in positions : at(pos) = " "}
    IN CASE paragraphs # {} -> search_start + Largest(paragraphs) + 2
         [] paragraphs = {} /\ sentences # {} -> search_start + Largest(sentences) + 1
         [] paragraphs = {} /\ sentences = {} /\ lines # {} ->
                search_start + Largest(lines) + 1
         [] paragraphs = {} /\ sentences = {} /\ lines = {} /\ spaces # {} ->
                search_start + Largest(spaces) + 1
         [] OTHER -> max_end

\* chunker.rs:110-120: where the window that starts at `start` ends
chunk_end_of(text, start, cfg) ==
    LET end == floor_char_boundary(
                   text, Min(start + cfg.max_chunk_chars, Len(text)))
    IN IF end < Len(text) THEN find_break_point(text, end, cfg) ELSE end

\* Mutant of next_start: the next window starts one byte after the chunk end
next_start_skips(text, chunk_end, chunks, cfg) == chunk_end + 1

\* chunker.rs:132-141: the start of the next window
next_start(text, chunk_end, chunks, cfg) ==
    LET start == ceil_char_boundary(
                     text, saturating_sub(chunk_end, cfg.overlap_chars))
    IN IF start <= saturating_sub(Len(chunks), 1) * cfg.max_chunk_chars
       THEN chunk_end ELSE start

\* chunker.rs:95-107: trim, then the empty and the short text
ChunkTextStart ==
    /\ op.pc = "chunk_text"
    /\ LET text == trim(op.input)
       IN op' = [op EXCEPT
                   !.text = text,
                   !.pc = IF text = <<>> \/ Len(text) <= op.config.max_chunk_chars
                          THEN "returned" ELSE "window",
                   !.chunks = IF text = <<>> THEN <<>>
                              ELSE IF Len(text) <= op.config.max_chunk_chars
                              THEN <<text>> ELSE <<>>]
    /\ UNCHANGED <<last, embDir, embFiles, consolidated, convFiles, pipeVars,
                   pullVars, written, credVars>>

\* chunker.rs:109-142: one iteration of `while start < text.len()`.  The
\* slice text[start..chunk_end] panics when chunk_end < start.  An iteration
\* that pushes nothing and comes back to a start it has had since the last
\* push repeats for ever: the loop state is `start` and `chunks` alone.
ChunkTextWindow ==
    /\ op.pc = "window"
    /\ LET chunk_end == chunk_end_of(op.text, op.start, op.config)
       IN IF chunk_end < op.start
          THEN op' = [op EXCEPT !.pc = "panicked"]
          ELSE LET chunk == trim(Slice(op.text, op.start, chunk_end))
                   chunks == IF chunk # <<>> THEN Append(op.chunks, chunk)
                             ELSE op.chunks
                   windows == Append(op.windows, <<op.start, chunk_end>>)
                   start == next_start(op.text, chunk_end, chunks, op.config)
                   seen == IF chunk # <<>> THEN {} ELSE op.seen \cup {op.start}
               IN IF chunk_end >= Len(op.text)
                  THEN op' = [op EXCEPT !.pc = "returned", !.chunks = chunks,
                                        !.windows = windows]
                  ELSE op' = [op EXCEPT
                                !.pc = IF start >= Len(op.text) THEN "returned"
                                       ELSE IF start \in seen THEN "spinning"
                                       ELSE "window",
                                !.chunks = chunks, !.windows = windows,
                                !.start = start, !.seen = seen]
    /\ UNCHANGED <<last, embDir, embFiles, consolidated, convFiles, pipeVars,
                   pullVars, written, credVars>>

ChunkInit ==
    /\ PipelineIdle /\ PullIdle /\ NothingWritten /\ CredIdle
    /\ embDir = FALSE
    /\ embFiles = [c \in ConvIds |-> NoFile]
    /\ consolidated = NoFile
    /\ last = [call |-> "none", result |-> "none"]
    /\ \E input \in Texts, cfg \in ChunkerConfig :
         op = [pc |-> "chunk_text", input |-> input, config |-> cfg,
               text |-> <<>>, start |-> 0, chunks |-> <<>>, windows |-> <<>>,
               seen |-> {}]

ChunkNext ==
    \/ ChunkTextStart
    \/ ChunkTextWindow

ChunkSpec == ChunkInit /\ [][ChunkNext]_vars

----------------------------------------------------------------------------
(* Claims about Pipeline::run and the stage workers                        *)

Inputs == DOMAIN conversations
Completed == {i \in Inputs : sent[i] = <<"Complete">>}
BothStagesStaffed == config.media_workers >= 1 /\ config.embed_workers >= 1
MessagesOf == [i \in Inputs |-> Len(conversations[i].messages)]
ChunksOf == [i \in Inputs |-> chunk_messages(conversations[i].messages)]

\* C1: with at least one media worker and one embed worker, every input
\* conversation gets exactly one terminal event (Complete or Error) on C3 and
\* never a second one; when run returns, conversations_synced + len(errors)
\* is the number of inputs, messages_processed is the sum of the message
\* counts of the completed inputs and embeddings_generated the sum of their
\* chunk counts.
C1_OneTerminalEventPerInput ==
    /\ \A i \in Inputs : Len(sent[i]) <= 1
    /\ (opc = "returned" /\ BothStagesStaffed) =>
          /\ \A i \in Inputs : Len(sent[i]) = 1
          /\ result.conversations_synced = Cardinality(Completed)
          /\ result.conversations_synced + Len(result.errors) = Len(conversations)
          /\ result.messages_processed = SetSum(Completed, MessagesOf)
          /\ result.embeddings_generated = SetSum(Completed, ChunksOf)

\* C1 witness: a run with two workers per stage returned after one input
\* completed and the other ended in an Error
C1_Witness ==
    /\ opc = "returned"
    /\ config.media_workers = 2 /\ config.embed_workers = 2
    /\ Len(conversations) = 2
    /\ result.conversations_synced = 1
    /\ Len(result.errors) = 1
    /\ result.messages_processed = 2

AllThreadsExited ==
    /\ feeder.pc \in {"unspawned", "done"}
    /\ \A w \in MediaIds : ~MediaAlive(w)
    /\ \A w \in EmbedIds : ~EmbedAlive(w)

\* C2: with at least one worker per stage and capacity >= 1, under fair
\* scheduling every run ends: the feeder and every worker exit, the channels
\* are drained and the orchestrator returns.
C2_RunTerminates ==
    BothStagesStaffed =>
        <>(opc = "returned" /\ AllThreadsExited
           /\ fetch_ch = <<>> /\ media_ch = <<>> /\ embed_ch = <<>>)

\* C2 witness: a producer is blocked on a full channel of capacity 1 while
\* two inputs are in flight
C2_Witness ==
    /\ BothStagesStaffed
    /\ config.channel_capacity = 1
    /\ Len(conversations) = 2
    /\ opc = "returned" /\ AllThreadsExited
    /\ fetch_ch = <<>> /\ media_ch = <<>> /\ embed_ch = <<>>
    /\ result.conversations_synced = 2

\* C3 (as claimed): a Complete for a conversation with chunks_count > 0 is
\* sent only after both its conversation file and its embedding file were
\* written and closed.
C3_CompleteOnlyAfterBothWrites ==
    \A i \in Inputs :
        (sent[i] = <<"Complete">> /\ ChunksOf[i] > 0) =>
            /\ hist[i] = "closed"
            /\ embFiles[conversations[i].id].state = "complete"

\* C4: once embed_batch has failed for an input, write_conversation is never
\* called for it, the only event ever sent for it is one Error of stage
\* "embed" (held by the worker until it is sent), and the worker that sent it
\* is back at the head of its receive loop.
C4_EmbedFailureInv ==
    \A i \in Inputs :
        hist[i] = "embed_failed" =>
            \/ /\ sent[i] = <<>>
               /\ \E w \in EmbedIds :
                     /\ embed[w].pc = "send"
                     /\ embed[w].out = Error(i, conversations[i].id, "embed",
                                             "Embedding failed")
            \/ /\ sent[i] = <<"embed">>
               /\ \A w \in EmbedIds :
                     embed[w].out # None => embed[w].out.idx # i

C4_EmbedFailureStep ==
    /\ \A i \in Inputs : hist[i] = "embed_failed" => hist'[i] = "embed_failed"
    /\ \A w \in EmbedIds :
         (embed[w].pc = "send" /\ embed[w].out.type = "Error"
            /\ embed[w].out.stage = "embed" /\ embed'[w] # embed[w]) =>
              embed'[w].pc = "recv"

C4_EmbedFailure == []C4_EmbedFailureInv /\ [][C4_EmbedFailureStep]_vars

\* C4 witness: a single embed worker sent the embed Error of the first input
\* and afterwards completed the second one
C4_Witness ==
    /\ config.media_workers = 1 /\ config.embed_workers = 1
    /\ Len(conversations) = 2
    /\ hist[1] = "embed_failed" /\ sent[1] = <<"embed">>
    /\ sent[2] = <<"Complete">>

\* C5 (as claimed): the final path of a conversation file or of an embedding
\* file never holds a file whose writer was not closed.
C5_NoPartialFileVisible ==
    /\ \A path \in ConvPaths : convFiles[path].state # "partial"
    /\ \A c \in ConvIds : embFiles[c].state # "partial"

----------------------------------------------------------------------------
(* Claims about the embedding storage, the compactor and semantic search   *)

fsVars == <<embDir, embFiles, consolidated>>

Count(rows, r) == Cardinality({k \in DOMAIN rows : rows[k] = r})
SourceFiles(store) == {c \in ConvIds : store[c].state # "absent"}
SourceRowCount(store) ==
    SetSum(SourceFiles(store), [c \in ConvIds |-> Len(store[c].content)])
RowUniverse(store) ==
    UNION {{store[c].content[k] : k \in DOMAIN store[c].content} :
           c \in SourceFiles(store)}

CompactReturnedSome == op.pc = "ret" /\ op.value.type = "Some"

\* C6: when compact_provider returns Some(result) from a directory that held
\* n >= 1 embedding files, files_merged = n, total_rows is the sum of the row
\* counts of those files, the consolidated file is a closed file that holds
\* exactly their rows, and the directory is gone.
C6_CompactionResult ==
    CompactReturnedSome =>
        /\ Cardinality(SourceFiles(op.src)) >= 1
        /\ op.value.files_merged = Cardinality(SourceFiles(op.src))
        /\ op.value.total_rows = SourceRowCount(op.src)
        /\ consolidated.state = "complete"
        /\ Len(consolidated.content) = SourceRowCount(op.src)
        /\ \A r \in RowUniverse(op.src) :
              Count(consolidated.content, r) =
                 SetSum(SourceFiles(op.src),
                        [c \in ConvIds |-> Count(op.src[c].content, r)])
        /\ ~embDir
        /\ DirFiles = {}

\* C6 witness: two files, of one and of two rows, were merged
C6_Witness ==
    /\ CompactReturnedSome
    /\ op.value.files_merged = 2
    /\ op.value.total_rows = 3

\* C7: a compact_provider call made when the source directory is missing
\* (only the consolidated file, or nothing, exists), or made right after a
\* compaction that ran to its end, returns None and changes nothing on disk.
C7_CompactionIdempotent ==
    [][(op.pc = "check" /\ (~embDir \/ op.prev = "done")) =>
          /\ fsVars' = fsVars
          /\ \/ op'.pc = "ret" /\ op'.value = CompactNone
             \/ op'.pc = "idle" /\ last'.result = "crashed"]_vars

\* C7 witness: the second of two compactions in a row returned None with
\* only the consolidated file on disk
C7_Witness ==
    /\ op.pc = "ret" /\ op.value = CompactNone /\ op.prev = "done"
    /\ ~embDir
    /\ consolidated.state = "complete" /\ Len(consolidated.content) >= 1

\* C8 (as claimed): the consolidated file and the per-conversation directory
\* of the provider are never both present.
C8_NeverBothLayouts == ~(embDir /\ consolidated.state # "absent")

\* C9 (as claimed): a compaction interrupted after it opened its output and
\* before it closed it leaves the source directory in place and no incomplete
\* file under the final consolidated name.
C9_CrashLeavesNoPartialOutput ==
    (op.pc = "idle" /\ "at" \in DOMAIN last
       /\ last.call \in {"compact_provider", "compact_all"}
       /\ last.at \in {"schema", "copy"}) =>
          /\ embDir
          /\ consolidated.state # "partial"

\* Every embedding row stored under embeddings/, in either layout
StoredRows ==
    (IF embDir THEN RowsOfFiles(DirFiles, embFiles) ELSE <<>>)
       \o (IF consolidated.state = "absent" THEN <<>> ELSE consolidated.content)

\* C10 (as claimed): with closed files in one of the two layouts (only
\* per-conversation files, or only the consolidated file), search_semantic
\* ranks over every stored row, so it returns what a ranking of all stored
\* rows returns.
C10_SearchRanksEveryStoredRow ==
    (/\ op.pc = "idle"
     /\ ~(embDir /\ consolidated.state # "absent")
     /\ consolidated.state # "partial"
     /\ \A c \in DirFiles : embFiles[c].state = "complete") =>
        \A query \in Queries, limit \in 0..MaxLimit :
            search_semantic(query, limit) =
               {SearchOk(results) :
                  results \in OrderByDistanceLimit(StoredRows, query, limit)}

----------------------------------------------------------------------------
(* Claims about the pull driver and the default configuration              *)

\* The pull decides about the conversation at the head of its loop
PullChecks == pull.pc = "loop" /\ pull.i <= Len(pull.listing) /\ pull' # pull

\* The decision was to skip it
PullSkips == pull'.pc = "loop" /\ pull'.i = pull.i + 1

\* The index holds a value for the conversation and the remote updated_at is
\* not strictly greater
RemoteNotNewer ==
    /\ PullAt.id \in DOMAIN index
    /\ PullAt.updated_at <= index[PullAt.id].rfc3339

\* A skipped conversation was not fetched, its row is as the pull found it
\* and it is not among the conversations handed to the pipeline
C11_SkippedUntouched ==
    pull.pc # "idle" =>
      \A j \in DOMAIN pull.trace :
        pull.trace[j] = "skipped" =>
          LET id == pull.listing[j].id
          IN /\ pull.fetched # None => pull.fetched.id # id
             /\ id \in DOMAIN index /\ index[id] = pull.index0[id]
             /\ \A k \in DOMAIN pull.pipeline_data : pull.pipeline_data[k].id # id
             /\ \A k \in DOMAIN conversations : conversations[k].id # id

C11_CheckStep ==
    PullChecks =>
        (PullSkips <=> /\ pull.new_only
                       /\ pull'.looked_up.type = "Ok"
                       /\ RemoteNotNewer)

\* C11 (amended): with new_only = true a listed conversation is skipped (not
\* fetched, not saved, not handed to the pipeline) exactly when the lookup of
\* its id in the operational index succeeds, the index holds an updated_at
\* for the id and the remote updated_at is not strictly greater; with
\* new_only = false, with no recorded value or with a failed lookup it is
\* never skipped.
C11_SkipExactly == []C11_SkippedUntouched /\ [][C11_CheckStep]_vars

\* C11 (as claimed): skipped exactly when new_only is set, the index holds an
\* updated_at for the id and the remote updated_at is not strictly greater.
C11_SkipAsClaimed ==
    [][PullChecks => (PullSkips <=> pull.new_only /\ RemoteNotNewer)]_vars

C11_Witness ==
    /\ pull.pc = "done" /\ pull.new_only
    /\ pull.trace = <<"skipped", "synced">>
    /\ pull.listing[1].updated_at = pull.index0[pull.listing[1].id].rfc3339
    /\ pull.listing[2].id \in DOMAIN pull.index0
    /\ Len(conversations) = 1

Max(a, b) == IF a >= b THEN a ELSE b

\* run_pipeline has built its configuration and started Pipeline::run
PipelineConfigured == pull.pc \in {"pipeline", "done"} /\ conversations # <<>>

\* C19 (as claimed): for every CPU count >= 1 the configuration built by
\* PipelineConfig::new has channel_capacity = 100 and max(1, cpus / 2) media
\* and embed workers, so that each stage has at least one worker.
C19_DefaultConfig ==
    PipelineConfigured =>
        /\ config.channel_capacity = 100
        /\ config.media_workers = Max(1, pull.cpus \div 2)
        /\ config.embed_workers = Max(1, pull.cpus \div 2)
        /\ config.media_workers >= 1 /\ config.embed_workers >= 1

----------------------------------------------------------------------------
(* Claims about the entries of PipelineResult.errors                       *)

\* The Error events built by the embed workers and not yet aggregated
ErrorEvents ==
    {embed[w].out : w \in {v \in EmbedIds : embed[v].out.type = "Error"}}
      \cup {embed_ch[k] : k \in {j \in DOMAIN embed_ch : embed_ch[j].type = "Error"}}

\* C20 (as claimed): the entry of PipelineResult.errors built from an Error
\* event (its message, mod.rs:157-159) carries the conversation id and the
\* stage of the event: events of different conversations or of different
\* stages give different entries, so the failed conversation can be read off
\* the entry.
C20_ErrorsCarryIdAndStage ==
    \A m1, m2 \in ErrorEvents :
        m1.message = m2.message =>
            /\ m1.conversation_id = m2.conversation_id
            /\ m1.stage = m2.stage

----------------------------------------------------------------------------
(* Claims about ParquetStore                                               *)

\* C12 (as claimed): read_conversation(provider, id) returns None if nothing
\* was written for (provider, id), and otherwise the conversation fields and
\* the message list, in order, of the most recent write for that key,
\* whatever was written before it or to other keys.
C12_ReadReturnsLastWrite ==
    (op.pc = "idle" /\ last.call = "read_conversation"
        /\ convFiles[last.path].state # "partial") =>
            last.result = [type |-> "Ok", value |-> written[last.path]]

----------------------------------------------------------------------------
(* Claims about search_hybrid                                              *)

HybridReturned == op.pc = "idle" /\ last.call = "search_hybrid"
Fused == HybridReturned /\ last.path = "fused"

\* The conversations of a candidate list, and of either list of the last call
ConversationsOf(list) == {list[i].conversation_id : i \in DOMAIN list}
Candidates == ConversationsOf(last.fts) \cup ConversationsOf(last.semantic)

\* The sum of 1 / (60 + rank) over the occurrences of a conversation in a
\* list, rank counted from 0, in units of 1 / RrfScale
RankSum(list, c) ==
    SetSum({i \in DOMAIN list : list[i].conversation_id = c},
           [i \in DOMAIN list |-> RrfScale \div (K + (i - 1))])
ExpectedScore(c) == RankSum(last.fts, c) + RankSum(last.semantic, c)

\* Scenario S6: FTS [A, B, C], semantic [B, A, D]
S6Combined ==
    AddSemanticScores(
        AddFtsScores(<<>>, <<SearchResult("A", 1), SearchResult("B", 1),
                             SearchResult("C", 1)>>, 1),
        <<[conversation_id |-> "B", chunk_index |-> 0, score |-> 1],
          [conversation_id |-> "A", chunk_index |-> 0, score |-> 3],
          [conversation_id |-> "D", chunk_index |-> 0, score |-> 4]>>, 1)

S6Scores ==
    /\ DOMAIN S6Combined = {"A", "B", "C", "D"}
    /\ S6Combined["A"].score = RrfScale \div K + RrfScale \div (K + 1)
    /\ S6Combined["B"].score = S6Combined["A"].score
    /\ S6Combined["C"].score = RrfScale \div (K + 2)
    /\ S6Combined["D"].score = S6Combined["C"].score
    /\ \A r \in FuseResults(S6Combined, 3) :
          /\ {r[1].conversation_id, r[2].conversation_id} = {"A", "B"}
          /\ r[3].conversation_id \in {"C", "D"}

\* C13: when both candidate lists are non-empty, each returned conversation
\* has the score sum of 1 / (60 + rank) over all its occurrences in both
\* lists (rank from 0 within each list), and the result is the conversations
\* in descending order of score, truncated to limit; in scenario S6 the
\* scores are A = B = 1/60 + 1/61 and C = D = 1/62.
C13_FusedScores ==
    /\ S6Scores
    /\ Fused =>
         LET res == last.result.results
         IN /\ last.fts # <<>> /\ last.semantic # <<>>
            /\ \A i \in DOMAIN res :
                  /\ res[i].conversation_id \in Candidates
                  /\ res[i].score = ExpectedScore(res[i].conversation_id)
            /\ \A i, j \in DOMAIN res :
                  i < j => /\ res[i].score >= res[j].score
                           /\ res[i].conversation_id # res[j].conversation_id
            /\ Len(res) = Min(last.limit, Cardinality(Candidates))
            /\ \A c \in Candidates \ ConversationsOf(res) :
                  \A i \in DOMAIN res : res[i].score >= ExpectedScore(c)

C13_Witness ==
    /\ Fused /\ last.limit = 1
    /\ Len(last.fts) = 3 /\ Len(last.semantic) = 3
    /\ Cardinality(Candidates) = 2
    /\ Len(last.result.results) = 1
    /\ last.result.results[1].score > 2 * (RrfScale \div K)

\* The lexicographic order of the conversation ids
SortedConvIds == <<"c1", "c2">>
IdBefore(a, b) ==
    \E i, j \in DOMAIN SortedConvIds :
        i < j /\ SortedConvIds[i] = a /\ SortedConvIds[j] = b

\* C14 (as claimed): conversations of equal hybrid score are returned in
\* ascending conversation_id order, and of those tied at the cut the smaller
\* ids are kept, so that the result is a function of the candidate lists.
C14_TiesByConversationId ==
    Fused =>
        LET res == last.result.results
        IN /\ \A i, j \in DOMAIN res :
                 (i < j /\ res[i].score = res[j].score) =>
                     IdBefore(res[i].conversation_id, res[j].conversation_id)
           /\ \A c \in Candidates \ ConversationsOf(res) :
                 \A i \in DOMAIN res :
                    res[i].score = ExpectedScore(c) =>
                        IdBefore(res[i].conversation_id, c)

\* C15 (as claimed): whichever path search_hybrid takes, its result has at
\* most limit entries and no conversation_id twice.
C15_AtMostLimitAndOncePerConversation ==
    (HybridReturned /\ last.result.type = "Ok") =>
        LET res == last.result.results
        IN /\ Len(res) <= last.limit
           /\ \A i, j \in DOMAIN res :
                 res[i].conversation_id = res[j].conversation_id => i = j

\* C16: when search_messages returns no candidate, search_hybrid returns what
\* search_semantic(vec, limit) returns; when it returns candidates and the
\* semantic candidate list is empty, search_hybrid returns the first limit
\* FTS results in FTS order, each with an empty message_id, the FTS snippet
\* as chunk_text and score 0.
C16_Fallbacks ==
    (HybridReturned /\ last.path # "fts_error") =>
        /\ last.fts = <<>> =>
              last.result \in search_semantic(last.query, last.limit)
        /\ (last.fts # <<>>
              /\ search_semantic(last.query, last.limit * 3) = {SearchOk(<<>>)}) =>
              last.result =
                  SearchOk([i \in 1..Min(last.limit, Len(last.fts)) |->
                              [conversation_id |-> last.fts[i].conversation_id,
                               message_id |-> NoMessage,
                               chunk_text |-> OfSnippet(last.fts[i]),
                               score |-> 0]])

C16_Witness ==
    /\ HybridReturned /\ last.path = "fts"
    /\ Len(last.fts) = 3 /\ last.limit = 1
    /\ Len(last.result.results) = 1
    /\ last.result.results[1].conversation_id = "c2"

----------------------------------------------------------------------------
(* Claims about MessageChunker::chunk_text                                 *)

\* C17: for every string and every configuration with max_chunk_chars >= 1
\* and overlap_chars >= 0, chunk_text terminates and does not panic: it
\* never slices text[start..chunk_end] with chunk_end < start, and its window
\* loop never comes back to a loop state it has already been in.
C17_ChunkTextTotal == op.pc \notin {"panicked", "spinning"}

\* The trimmed slices of the windows that are not empty, in window order
RECURSIVE ChunksOfWindows(_, _)
ChunksOfWindows(text, windows) ==
    IF windows = <<>> THEN <<>>
    ELSE LET chunk == trim(Slice(text, Head(windows)[1], Head(windows)[2]))
             rest == ChunksOfWindows(text, Tail(windows))
         IN IF chunk # <<>> THEN <<chunk>> \o rest ELSE rest

ChunkedLongText ==
    op.pc = "returned" /\ Len(op.text) > op.config.max_chunk_chars

\* The windows whose trimmed slice is not empty: those that gave a chunk
RECURSIVE ChunkWindows(_, _)
ChunkWindows(text, windows) ==
    IF windows = <<>> THEN <<>>
    ELSE LET rest == ChunkWindows(text, Tail(windows))
         IN IF trim(Slice(text, Head(windows)[1], Head(windows)[2])) # <<>>
            THEN <<Head(windows)>> \o rest ELSE rest

----------------------------------------------------------------------------
(* Claims about the credential store                                       *)

Quiescent == \A t \in Callers : callers[t].pc = "idle"

SameKey(a, b) == a.service = b.service /\ a.user = b.user

\* In the order `order` of the calls, the sets on the key of the k-th call
\* that come before it with no later set or delete of that key in between
LatestSet(calls, order, k) ==
    {j \in 1..(k - 1) :
        /\ calls[order[j]].call = "set"
        /\ SameKey(calls[order[j]], calls[order[k]])
        /\ \A i \in (j + 1)..(k - 1) :
              ~(/\ calls[order[i]].call \in {"set", "delete"}
                /\ SameKey(calls[order[i]], calls[order[k]]))}

\* What a map keyed by (service, user) answers to the k-th call of the order
Answer(calls, order, k) ==
    LET c == calls[order[k]]
        latest == LatestSet(calls, order, k)
    IN CASE c.call = "set" -> Ok(Unit)
         [] c.call = "get" ->
              IF latest = {} THEN NotFound
              ELSE Ok(calls[order[CHOOSE j \in latest : TRUE]].password)
         [] c.call = "delete" -> IF latest = {} THEN NotFound ELSE Ok(Unit)

\* The calls can be put in one order that keeps every call that returned
\* before another was made in front of it, and in which every call got the
\* answer of the map
Linearizable(calls) ==
    \E order \in Perms(DOMAIN calls) :
        /\ \A a, b \in DOMAIN calls :
              calls[order[a]].returned < calls[order[b]].called => a < b
        /\ \A k \in DOMAIN calls : calls[order[k]].value = Answer(calls, order, k)

\* C21: whenever no call is in progress, the calls made so far by all threads
\* are linearizable with respect to a map keyed by (service, user): get
\* returns the password of the latest set of its key that no delete followed
\* and NotFound otherwise, delete of an absent key returns NotFound and
\* changes nothing, and a call on one key does not affect another key; and no
\* thread is left holding the mutex.
C21_Linearizable ==
    Quiescent =>
        /\ Linearizable(history.calls)
        /\ mutex = 0

\* Two threads have made overlapping calls on one key, a set and a get that
\* saw it, and some delete found nothing to delete
C21_Witness ==
    /\ Quiescent
    /\ \E a, b \in DOMAIN history.calls :
          /\ history.calls[a].thread # history.calls[b].thread
          /\ SameKey(history.calls[a], history.calls[b])
          /\ history.calls[a].called < history.calls[b].returned
          /\ history.calls[b].called < history.calls[a].returned
          /\ history.calls[a].call = "set"
          /\ history.calls[b].call = "get"
          /\ history.calls[b].value = Ok(history.calls[a].password)
    /\ \E d \in DOMAIN history.calls :
          history.calls[d].call = "delete" /\ history.calls[d].value = NotFound

----------------------------------------------------------------------------
(* Further claims about Pipeline::run and the stage workers                *)

\* Worker w is inside write_conversation: it has created the file and has
\* not yet closed the writer
InsideWriteConversation(w) == embed[w].pc = "write"

\* C22: no two embed workers are inside write_conversation for the same file
\* path at the same time, whatever the batch (a batch may hold the same
\* (provider, conversation id) twice) and the number of stage-3 workers.
C22_OneWriterPerFile ==
    \A w1, w2 \in EmbedIds :
        (/\ w1 # w2
         /\ InsideWriteConversation(w1)
         /\ InsideWriteConversation(w2))
        => conversation_path(embed[w1].msg.conversation)
             # conversation_path(embed[w2].msg.conversation)

\* A message is taken from the input channel of stage 2 / stage 3 in this step
FetchTaken == fetch_ch # <<>> /\ fetch_ch' = Tail(fetch_ch)
MediaTaken == media_ch # <<>> /\ media_ch' = Tail(media_ch)

IsControl(m) == m.type \in {"Error", "Shutdown"}

\* Worker w makes its tx.send call in this step
MediaSends(w) == media[w].pc = "send" /\ media'[w] # media[w]
EmbedSends(w) == embed[w].pc = "send" /\ embed'[w] # embed[w]

C23_MediaStep ==
    \* an Error or Shutdown taken from the input is what the worker that took
    \* it sends next
    /\ (FetchTaken /\ IsControl(Head(fetch_ch)))
         => \E w \in MediaIds :
               /\ media[w].pc = "recv"
               /\ media' = [media EXCEPT ![w] = [pc |-> "send", msg |-> Head(fetch_ch)]]
    /\ \A w \in MediaIds :
        \* the send puts exactly that message on the output channel, once
        /\ (MediaSends(w) /\ IsControl(media[w].msg))
             => /\ IF MediaReceivers
                   THEN media_ch' = Append(media_ch, media[w].msg)
                   ELSE media_ch' = media_ch
                /\ fetch_ch' = fetch_ch
                /\ media'[w].pc = IF media[w].msg.type = "Shutdown"
                                  THEN "done" ELSE "recv"
        \* a worker that has exited takes nothing more
        /\ media[w].pc = "done" => media'[w] = media[w]

C23_EmbedStep ==
    /\ (MediaTaken /\ IsControl(Head(media_ch)))
         => \E w \in EmbedIds :
               /\ embed[w].pc = "recv"
               /\ embed' = [embed EXCEPT ![w] =
                              [pc |-> "send", msg |-> None, out |-> Head(media_ch)]]
    /\ \A w \in EmbedIds :
        /\ (EmbedSends(w) /\ IsControl(embed[w].out))
             => /\ IF EmbedReceivers
                   THEN embed_ch' = Append(embed_ch, embed[w].out)
                   ELSE embed_ch' = embed_ch
                /\ media_ch' = media_ch
                /\ embed'[w].pc = IF embed[w].out.type = "Shutdown"
                                  THEN "done" ELSE "recv"
        /\ embed[w].pc = "done" => embed'[w] = embed[w]

\* C23: a stage worker that takes an Error from its input sends that same
\* message, unchanged, on its output channel and goes back to its input; one
\* that takes Shutdown sends one Shutdown on its output channel and exits,
\* and takes nothing from its input afterwards.  (A send on a channel whose
\* receivers are all gone puts nothing on it; the worker goes on the same way.)
C23_ControlMessages == [][C23_MediaStep /\ C23_EmbedStep]_vars

\* A media worker has forwarded the Error it took and another has re-emitted
\* Shutdown; the one embed worker has taken the Shutdown, passed it on and
\* exited, leaving the forwarded Error in its input channel
C23_Witness ==
    /\ media_ch = <<Error(1, "c1", "fetch", "Fetch failed")>>
    /\ embed[1].pc = "done"
    /\ \E k \in DOMAIN embed_ch : embed_ch[k] = Shutdown
    /\ \E w \in MediaIds : media[w].pc = "done"
    /\ \E w \in MediaIds : media[w].pc = "recv"

----------------------------------------------------------------------------
(* Further claims about the compactor                                      *)

Compacting == op.pc # "idle" /\ op.call \in {"compact_provider", "compact_all"}
BeforeRemoval == Compacting /\ op.pc \in {"create_out", "schema", "copy"}

\* Up to the close of the writer the source directory is as compact_provider
\* found it
C24_SourcesKept == BeforeRemoval => (embDir /\ embFiles = op.src)

C24_Step ==
    \* a step that fails (File::create, opening or reading a source file,
    \* writing a batch, closing the writer) returns Err and leaves the
    \* directory and every source file as they were
    /\ (BeforeRemoval /\ op'.pc = "ret" /\ op'.value = CompactErr)
         => (embDir' /\ embFiles' = op.src)
    \* the directory or a source file changes only in the removal, which
    \* starts after the writer was closed over every row
    /\ (Compacting /\ (embFiles' # embFiles \/ embDir' # embDir))
         => (op.pc = "remove" /\ consolidated = CompleteFile(op.rows))
    /\ (Compacting /\ op.pc # "remove" /\ op'.pc = "remove")
         => (op.pc = "copy" /\ consolidated' = CompleteFile(op.rows))

\* C24: compact_provider removes the source files only after a successful
\* write: a failure of any step up to and including writer.close() returns an
\* error with embeddings/p/ and every source file unchanged, and the removal
\* is reached only after the writer was closed successfully.
C24_RemoveOnlyAfterWrite == []C24_SourcesKept /\ [][C24_Step]_vars

\* compact_provider has failed on the second of two source files: it is about
\* to return Err, the output file is unfinished, both source files are there
C24_Witness ==
    /\ Compacting
    /\ op.pc = "ret" /\ op.value = CompactErr
    /\ Len(op.files) = 2 /\ op.i = 2
    /\ consolidated.state = "partial"
    /\ embDir /\ embFiles = op.src
    /\ Cardinality(DirFiles) = 2

\* The rows of the files `names`, file after file, in the order of `names`
RECURSIVE RowsInOrder(_, _)
RowsInOrder(names, store) ==
    IF names = <<>> THEN <<>>
    ELSE store[Head(names)].content \o RowsInOrder(Tail(names), store)

\* The source files of the compaction in ascending filename order
InFiles(c) == \E k \in DOMAIN op.files : op.files[k] = c
FilenameSorted == SelectSeq(SortedConvIds, InFiles)

\* C25: once compact_provider has closed its writer, the consolidated file
\* holds the rows of the source files in ascending filename order, whatever
\* order the directory listing gave.
C25_FilenameOrder ==
    (Compacting /\ op.pc = "remove")
        => consolidated.content = RowsInOrder(FilenameSorted, op.src)

----------------------------------------------------------------------------
(* Further claims about MessageChunker::chunk_text                         *)

\* chunk_text goes from one window to the next in this step
WindowAdvances == op.pc = "window" /\ op'.pc \in {"window", "spinning"}

\* C26: after a window [start, chunk_end) that is not the last, the next
\* window starts at chunk_end - overlap_chars, snapped up to a character
\* boundary, when that is strictly greater than the start of the current
\* window, and at chunk_end when it is not; so the start strictly increases.
C26_WindowAdvance ==
    [][WindowAdvances =>
        LET chunk_end == op'.windows[Len(op'.windows)][2]
            back == ceil_char_boundary(
                        op.text, saturating_sub(chunk_end, op.config.overlap_chars))
        IN /\ op'.start = IF back > op.start THEN back ELSE chunk_end
           /\ op'.start > op.start]_vars

----------------------------------------------------------------------------
(* Claims about compaction after compaction                                *)

RowsIn(file) ==
    IF file.state = "absent" THEN {}
    ELSE {file.content[k] : k \in DOMAIN file.content}

\* C27: when compact_provider returns Some, every row that was in a file
\* under embeddings/p/ when it was called, and every row of the consolidated
\* file that was there when it was called and whose conversation has no newer
\* file under embeddings/p/, is in the consolidated file.
C27_CompactionKeepsRows ==
    CompactReturnedSome =>
        /\ \A c \in SourceFiles(op.src) :
              RowsIn(op.src[c]) \subseteq RowsIn(consolidated)
        /\ \A r \in RowsIn(op.dest) :
              r.conversation_id \notin SourceFiles(op.src)
                  => r \in RowsIn(consolidated)

----------------------------------------------------------------------------
(* Claims about a pull after a pull                                        *)

\* The pull has run the pipeline on what it collected and is over
PulledThroughPipeline ==
    pull.pc = "done" /\ pull.value = "Ok" /\ pull.pipeline_data # <<>>

\* The columnar file of input i of the pipeline run was written and closed
FileWritten(i) == hist[i] = "closed"

\* C28: after a pull, a conversation whose pipeline processing did not write
\* its columnar file (it ended in an Error event, or the run dropped it) is
\* not skipped by the next new-only pull when its remote updated_at is the
\* same: its recorded updated_at was advanced only if its file was written.
C28_FailedIsPickedUpAgain ==
    PulledThroughPipeline =>
        \A i \in DOMAIN conversations :
            ~FileWritten(i) =>
                \A k \in DOMAIN pull.listing :
                    pull.listing[k].id = conversations[i].id =>
                        \A looked_up \in
                               get_conversation_updated_at(conversations[i].id) :
                            ~should_skip(pull.listing[k].updated_at, TRUE, looked_up)

----------------------------------------------------------------------------
(* Claims about a pipeline with a stage that has no worker                 *)

Unstaffed ==
    conversations # <<>> /\ (config.media_workers = 0 \/ config.embed_workers = 0)

UnstaffedReturned ==
    /\ Unstaffed
    /\ opc = "returned"
    /\ result.conversations_synced = 0
    /\ result.errors = <<>>

\* With a stage without workers no event reaches the orchestrator and no
\* file is written
C29_NothingHappens ==
    Unstaffed =>
        /\ result = PipelineResultDefault
        /\ embed_ch = <<>>
        /\ \A i \in Inputs : sent[i] = <<>>
        /\ convFiles = [path \in ConvPaths |-> NoFile]

\* C29: with media_workers = 0 or embed_workers = 0 and a non-empty input,
\* Pipeline::run terminates and returns Ok with conversations_synced = 0 and
\* no errors; every input is discarded and no Error event is sent.
C29_UnstaffedRunReturnsEmpty ==
    /\ []C29_NothingHappens
    /\ Unstaffed ~> UnstaffedReturned

\* The run of two conversations through a pipeline with media workers but no
\* embed worker has returned: the feeder and the media workers are done
C29_Witness ==
    /\ UnstaffedReturned
    /\ Len(conversations) = 2
    /\ config.media_workers >= 1 /\ config.embed_workers = 0
    /\ feeder.pc = "done"
    /\ \A w \in MediaIds : ~MediaAlive(w)

----------------------------------------------------------------------------
(* Claims about status() and needs_compaction                              *)

\* status() has just returned Ok: the files are as it saw them
StatusReturned ==
    op.pc = "idle" /\ last.call = "status" /\ last.result.type = "Ok"

StatusesOf(provider) ==
    {k \in DOMAIN last.result.statuses :
        last.result.statuses[k].provider = provider}

\* C30: in every on-disk state status() and needs_compaction agree: when
\* needs_compaction(p) is true, also with a consolidated file present, the
\* record of p says is_consolidated = false; and a provider that has
\* embeddings appears exactly once in the list.
C30_StatusAgreesWithNeedsCompaction ==
    StatusReturned =>
        /\ needs_compaction(Provider) =>
              /\ StatusesOf(Provider) # {}
              /\ \A k \in StatusesOf(Provider) :
                    ~last.result.statuses[k].is_consolidated
        /\ (embDir \/ consolidated.state # "absent") =>
              Cardinality(StatusesOf(Provider)) = 1
====
